---- MODULE Spec2Model ----
(***************************************************************************)
(* The curriculum training loop of dspy/train_loop.py: check_curriculum,   *)
(* run_agents_parallel / _run_single_agent, run_iteration and main.        *)
(***************************************************************************)
EXTENDS Integers, Sequences, FiniteSets, TLC

(* ---- program constants (train_loop.py, "defaults") ---- *)
CONSECUTIVE_CLEARS_TO_ADVANCE == 2
STEP_INCREMENT == 2
MAX_STEPS == 30
MAX_CONSECUTIVE_FAILURES == 3
OPTIMIZATION_COST == 2
SLIDING_WINDOW_SIZE == 5

(* ---- bounds of the model ---- *)
\* --parallel-agents of the runs with a batch of several agents
ManyAgents == 2
\* --max-iterations of the runs with one agent per batch
LongRun == 4
\* inputs of the pure-function specification of check_curriculum
MaxStepsIn == 32
MaxClearsIn == 3

\* the command lines explored: one iteration of a wide batch from the
\* default target (--max-iterations 1), and long runs of one-agent batches
\* at the ceiling and past it
Configs ==
    {[initial_target |-> 2, max_iterations |-> 1, n_agents |-> ManyAgents]}
    \cup [initial_target : {MAX_STEPS, MAX_STEPS + 1},
          max_iterations : {LongRun},
          n_agents : {1}]

Min(a, b) == IF a <= b THEN a ELSE b
Max(a, b) == IF a >= b THEN a ELSE b

(* ======================= check_curriculum ============================== *)

\* mutation of CountedClears: a batch clears only above the target
CountedClears_strict(best_steps, step_target, consecutive_clears) ==
    IF best_steps > step_target THEN consecutive_clears + 1 ELSE 0

\* lines 276-281: the clear counter after counting the current batch
CountedClears(best_steps, step_target, consecutive_clears) ==
    IF best_steps >= step_target THEN consecutive_clears + 1 ELSE 0

\* mutation of ReachedThreshold: advancing one clear early
ReachedThreshold_early(clears) == clears >= CONSECUTIVE_CLEARS_TO_ADVANCE - 1

\* line 286: the advancement threshold test
ReachedThreshold(clears) == clears >= CONSECUTIVE_CLEARS_TO_ADVANCE

\* mutation of CappedTarget: the ceiling is not applied
CappedTarget_uncapped(step_target) == step_target + STEP_INCREMENT

\* line 287: the capped next target
CappedTarget(step_target) == Min(step_target + STEP_INCREMENT, MAX_STEPS)

\* mutation of check_curriculum: the clear counter survives an advancement
check_curriculum_keeps(best_steps, step_target, consecutive_clears) ==
    LET clears == CountedClears(best_steps, step_target, consecutive_clears)
        capped == CappedTarget(step_target)
    IN  IF ReachedThreshold(clears)
        THEN [new_target |-> capped, consecutive_clears |-> clears,
              advanced |-> capped > step_target]
        ELSE [new_target |-> step_target, consecutive_clears |-> clears, advanced |-> FALSE]

\* lines 264-292
check_curriculum(best_steps, step_target, consecutive_clears) ==
    LET clears == CountedClears(best_steps, step_target, consecutive_clears)
        capped == CappedTarget(step_target)
    IN  IF ReachedThreshold(clears)
        THEN IF capped > step_target
             THEN [new_target |-> capped, consecutive_clears |-> 0, advanced |-> TRUE]
             ELSE [new_target |-> capped, consecutive_clears |-> clears, advanced |-> FALSE]
        ELSE [new_target |-> step_target, consecutive_clears |-> clears, advanced |-> FALSE]


(* ============================ the state ================================ *)

VARIABLES
    args,           \* parsed command line: initial_target, max_iterations, n_agents
    state,          \* the TrainingState dict shared by main and run_iteration
    state_file,     \* content of STATE_FILE (training_state.json)
    pc,             \* position of the controller (main thread)
    exc,            \* exception propagating in the main thread
    exit_reason,    \* why the main loop was left
    agents,         \* the trial workers of the current batch
    frame,          \* locals of the running run_iteration / run_agents_parallel
    system_prompt,  \* content of SYSTEM.md
    prompt_history, \* contents backed up under prompt_history/
    browsers,       \* agent ids whose browser descendants are still alive
    obs,            \* history variables observing the run
    fn_in,          \* input of the pure-function specifications
    fn_out,         \* their result
    trial           \* one call of _run_single_agent, followed step by step

vars == <<args, state, state_file, pc, exc, exit_reason, agents, frame,
          system_prompt, prompt_history, browsers, obs, fn_in, fn_out, trial>>

NoSnapshot == [iteration |-> -1]
\* a run_*.json file that was not written
NoFile == [exists |-> FALSE, valid |-> FALSE, steps |-> 0, cost |-> 0]
NoInput == [kind |-> "none"]
NoOutput == [called |-> FALSE]
NoTrial == [pos |-> "none"]
\* an iteration_N.json that was not written
NoRecord == [iteration |-> -1]

AgentIds == 0 .. (args.n_agents - 1)

\* lines 71-79
make_fresh_state(initial_target) ==
    [iteration |-> 0,
     step_target |-> initial_target,
     consecutive_clears |-> 0,
     consecutive_failures |-> 0,
     trajectory_history |-> <<>>,
     total_cost |-> 0]

\* lines 67-68: the snapshot is the whole dict
save_state(s) == s

\* line 168 with one directory for every agent
BrowserDir_shared(agent_id) == <<".browser-data">>

\* line 168: PROJECT_DIR / f".browser-data-{agent_id}"
BrowserDir(agent_id) == <<".browser-data", agent_id>>

\* the session and process group of the runner itself
RunnerSession == 0

\* the pid of the process Popen starts for a worker: live processes have
\* pairwise distinct pids
AgentPid(agent_id) == agent_id + 1

\* line 188: with start_new_session=True the child calls setsid() and leads
\* a session and a process group named after its pid
SessionOf(pid, start_new_session) ==
    IF start_new_session THEN pid ELSE RunnerSession

\* a worker that has not been submitted
IdleAgent == [st |-> "idle", how |-> "none", rc |-> 0, run |-> NoFile,
              transcript |-> FALSE, dir |-> <<>>, session |-> RunnerSession]

\* lines 169-191: browser dir wiped, process launched in its own session,
\* the worker blocks in communicate()
RunningAgent == [st |-> "running", how |-> "none", rc |-> 0, run |-> NoFile,
                 transcript |-> FALSE, dir |-> <<>>, session |-> RunnerSession]

\* lines 231-235 and 168-189: worker agent_id of the batch, with the
\* directory and the session of its agent
SubmittedAgent(agent_id) ==
    [RunningAgent EXCEPT !.dir = BrowserDir(agent_id),
                         !.session = SessionOf(AgentPid(agent_id), TRUE)]

(* ============================ prompt texts ============================= *)
\* A text is a sequence of one-character strings; the texts of this model are
\* ASCII, for which str.lower() keeps the length.

\* str.lower() on the letters that have a lower-case form
LowerMap ==
    ("A" :> "a") @@ ("B" :> "b") @@ ("C" :> "c") @@ ("D" :> "d") @@
    ("E" :> "e") @@ ("F" :> "f") @@ ("G" :> "g") @@ ("H" :> "h") @@
    ("I" :> "i") @@ ("J" :> "j") @@ ("K" :> "k") @@ ("L" :> "l") @@
    ("M" :> "m") @@ ("N" :> "n") @@ ("O" :> "o") @@ ("P" :> "p") @@
    ("Q" :> "q") @@ ("R" :> "r") @@ ("S" :> "s") @@ ("T" :> "t") @@
    ("U" :> "u") @@ ("V" :> "v") @@ ("W" :> "w") @@ ("X" :> "x") @@
    ("Y" :> "y") @@ ("Z" :> "z")

\* str.lower() on one character
LowerChar(c) == IF c \in DOMAIN LowerMap THEN LowerMap[c] ELSE c

\* line 443: optimized_prompt.lower()
Lower(text) == [k \in 1 .. Len(text) |-> LowerChar(text[k])]

\* line 443: text[:n]
Prefix(text, n) == SubSeq(text, 1, Min(n, Len(text)))

\* line 443: p in text
Contains(p, text) ==
    \E k \in 0 .. (Len(text) - Len(p)) : SubSeq(text, k + 1, k + Len(p)) = p

\* line 443: the slice [:200]
SCANNED_PREFIX == 200

\* line 442
bad_patterns_1 ==
    <<"g", "e", "n", "e", "r", "a", "t", "e", " ", "a", "n", " ", "o", "p",
    "t", "i", "m", "i", "z", "e", "d">>

bad_patterns_2 ==
    <<"o", "u", "t", "p", "u", "t", " ", "o", "n", "l", "y", " ", "t", "h",
    "e", " ", "o", "p", "t", "i", "m", "i", "z", "e", "d">>

bad_patterns_3 ==
    <<"f", "o", "r", "m", "a", "t", ":", " ", "o", "u", "t", "p", "u", "t">>

bad_patterns == <<bad_patterns_1, bad_patterns_2, bad_patterns_3>>

\* line 443 with the lower() left out
is_meta_prompt_cased(prompt) ==
    LET scanned == Prefix(prompt, SCANNED_PREFIX)
    IN  \E k \in 1 .. Len(bad_patterns) : Contains(bad_patterns[k], scanned)

\* line 443
is_meta_prompt(prompt) ==
    LET scanned == Prefix(Lower(prompt), SCANNED_PREFIX)
    IN  \E k \in 1 .. Len(bad_patterns) : Contains(bad_patterns[k], scanned)

\* the SYSTEM.md the run starts with, and what run_optimization may return
\* as optimized_prompt: an agent prompt, or a prompt about writing prompts
P0 ==
    <<"A", "c", "t", ".">>

P1 ==
    <<"C", "l", "i", "c", "k", ".">>

MetaPrompt ==
    <<"G", "e", "n", "e", "r", "a", "t", "e", " ", "a", "n", " ", "o", "p",
    "t", "i", "m", "i", "z", "e", "d", " ", "p", "r", "o", "m", "p", "t">>

\* SYSTEM.md when the file does not exist (no text has this element)
NoPromptFile == <<"no file">>

\* lines 333-336
ReadPrompt(file) == IF file = NoPromptFile THEN <<>> ELSE file

\* locals of run_iteration before the batch (lines 325-340)
FreshFrame(iteration, step_target, prompt) ==
    [iteration |-> iteration,
     step_target |-> step_target,
     previous_prompt |-> prompt,
     cleanups |-> 0,
     new_run_files |-> <<>>,
     new_transcript_files |-> <<>>,
     best_steps |-> 0,
     total_agent_cost |-> 0,
     curriculum |-> [new_target |-> 0, consecutive_clears |-> 0, advanced |-> FALSE],
     optimized_prompt |-> prompt,
     optimization_cost |-> 0,
     optimization |-> "none",
     judge_feedback |-> <<>>,
     rollout_analysis |-> <<>>,
     prompt_written |-> FALSE,
     iteration_record |-> NoRecord]

InitObs ==
    [last_save |-> "none",        \* which save_state call wrote state_file last
     crash_streak |-> 0,          \* completed crash batches in a row (-1: an abort intervened)
     all_cleared |-> TRUE,        \* every pass so far was a completed, clearing batch
     in_flight |-> {},            \* trials running when the operator interrupted
     wrote_run |-> {},            \* agents of the batch that wrote a run_*.json
     overwritten |-> {},          \* contents of SYSTEM.md that a write replaced
     passes |-> 0,                \* passes of the main loop begun so far
     entry |-> make_fresh_state(0)]  \* the TrainingState when run_iteration was entered

\* lines 526-544 without --resume
Init ==
    /\ args \in Configs
    /\ state = make_fresh_state(args.initial_target)
    /\ state_file = NoSnapshot
    /\ pc = "loop"
    /\ exc = "none"
    /\ exit_reason = "none"
    /\ agents = [i \in AgentIds |-> IdleAgent]
    /\ frame = FreshFrame(0, 0, P0)
    /\ system_prompt = P0
    /\ prompt_history = {}
    /\ browsers = {}
    /\ obs = InitObs
    /\ fn_in = NoInput
    /\ fn_out = NoOutput
    /\ trial = NoTrial

(* ===================== the trial workers (threads) ===================== *)

\* costs an agent may report in totalCost
CostChoices == {1}

\* the run_*.json an agent may leave: none, one that is not valid JSON, or
\* metrics whose stepsCompleted misses or meets the target
RunFileChoices(step_target) ==
    {NoFile, [exists |-> TRUE, valid |-> FALSE, steps |-> 0, cost |-> 0]}
    \cup [exists : {TRUE}, valid : {TRUE}, steps : {0, step_target}, cost : CostChoices]

Running == {i \in AgentIds : agents[i].st = "running"}
Returned == {i \in AgentIds : agents[i].st = "returned"}

WorkersMayRun == pc \in {"batch", "unwind"}

\* the agent's exit status: run_iteration never reads it, the model lets it
\* tell whether the agent wrote its metrics
ExitCode(run) == IF run.exists THEN 0 ELSE 1

\* lines 191-192 and 205-215: the agent exits by itself, communicate()
\* returns and the worker returns (returncode, output). The agent is a
\* separate program: what it wrote, and whether its browser is still alive,
\* is its own choice.
AgentExits(i) ==
    /\ WorkersMayRun
    /\ agents[i].st = "running"
    /\ \E run \in RunFileChoices(frame.step_target),
          tr \in BOOLEAN, orphan \in BOOLEAN :
        /\ agents' = [agents EXCEPT ![i] =
              [st |-> "returned", how |-> "exit", rc |-> ExitCode(run), run |-> run,
               transcript |-> tr]]
        /\ browsers' = IF orphan THEN browsers \cup {i} ELSE browsers
        /\ obs' = [obs EXCEPT !.wrote_run = IF run.exists THEN @ \cup {i} ELSE @]
    /\ UNCHANGED <<args, state, state_file, pc, exc, exit_reason, frame,
                   system_prompt, prompt_history, fn_in, fn_out, trial>>

\* lines 193-202 and 123-136: communicate() times out, the process group
\* gets SIGTERM then SIGKILL, the worker returns -1; the agent was killed
\* before it wrote its metrics
AgentTimesOut(i) ==
    /\ WorkersMayRun
    /\ agents[i].st = "running"
    /\ agents' = [agents EXCEPT ![i] =
          [st |-> "returned", how |-> "timeout", rc |-> -1, run |-> NoFile,
           transcript |-> FALSE]]
    /\ browsers' = browsers \ {i}
    /\ UNCHANGED <<args, state, state_file, pc, exc, exit_reason, frame,
                   system_prompt, prompt_history, obs, fn_in, fn_out, trial>>

\* lines 203-204: Popen raises, the worker returns -1
AgentLaunchFails(i) ==
    /\ WorkersMayRun
    /\ agents[i].st = "running"
    /\ agents' = [agents EXCEPT ![i] =
          [st |-> "returned", how |-> "launch_error", rc |-> -1, run |-> NoFile,
           transcript |-> FALSE]]
    /\ UNCHANGED <<args, state, state_file, pc, exc, exit_reason, frame,
                   system_prompt, prompt_history, browsers, obs, fn_in, fn_out, trial>>

(* ============================ main loop ================================ *)

\* line 546
LoopContinues == state.iteration < args.max_iterations
\* line 548
Mastered == state.step_target > MAX_STEPS
\* mutation of TooManyFailures: the breaker trips one failure late
TooManyFailures_late == state.consecutive_failures > MAX_CONSECUTIVE_FAILURES

\* line 553
TooManyFailures == state.consecutive_failures >= MAX_CONSECUTIVE_FAILURES

Leave(reason) ==
    /\ pc' = "done"
    /\ exit_reason' = reason
    /\ UNCHANGED <<args, state, state_file, exc, agents, frame, system_prompt,
                   prompt_history, browsers, obs, fn_in, fn_out, trial>>

\* line 546: the while condition fails
ExitMaxIterations ==
    /\ pc = "loop"
    /\ ~LoopContinues
    /\ Leave("max_iterations")

\* lines 548-550
ExitMastered ==
    /\ pc = "loop"
    /\ LoopContinues
    /\ Mastered
    /\ Leave("mastered")

\* lines 553-555
ExitFailures ==
    /\ pc = "loop"
    /\ LoopContinues
    /\ ~Mastered
    /\ TooManyFailures
    /\ Leave("failures")

\* lines 139-158: pkill of the browser patterns, rmtree of .browser-data*
CleanedBrowsers == {}

\* lines 558, 325-340 and 223-235: run_iteration reads SYSTEM.md, snapshots
\* runs/, run_agents_parallel cleans up and submits every worker
EnterIteration ==
    /\ pc = "loop"
    /\ LoopContinues
    /\ ~Mastered
    /\ ~TooManyFailures
    /\ pc' = "batch"
    /\ frame' = [FreshFrame(state.iteration, state.step_target, ReadPrompt(system_prompt)) EXCEPT !.cleanups = 1]
    /\ browsers' = CleanedBrowsers
    /\ agents' = [i \in AgentIds |-> SubmittedAgent(i)]
    /\ obs' = [obs EXCEPT !.entry = state, !.wrote_run = {}, !.passes = @ + 1]
    /\ UNCHANGED <<args, state, state_file, exc, exit_reason, system_prompt,
                   prompt_history, fn_in, fn_out, trial>>

(* ========================== run_iteration ============================== *)

\* the name of the run_*.json or transcript_*.json written by agent i in an
\* iteration; within a batch the names sort like the agent ids
FileName(iteration, i) == <<iteration, i>>
NoName == <<>>

RECURSIVE SortedReverse(_)
\* sorted(..., reverse=True) over the files of the agents in S
SortedReverse(S) ==
    IF S = {} THEN <<>>
    ELSE LET i == CHOOSE a \in S : \A b \in S : b <= a
         IN  <<i>> \o SortedReverse(S \ {i})

\* lines 339 and 342-351: the files in runs/ that were not there before the
\* batch are the ones the agents of the batch wrote
NewRunFiles ==
    LET order == SortedReverse({i \in AgentIds : agents[i].run.exists})
    IN  [k \in 1 .. Len(order) |->
            [name |-> FileName(frame.iteration, order[k]), content |-> agents[order[k]].run]]

NewTranscriptFiles ==
    LET order == SortedReverse({i \in AgentIds : agents[i].transcript})
    IN  [k \in 1 .. Len(order) |-> FileName(frame.iteration, order[k])]

\* mutation of CountFailure: a batch with run files leaves the counter
CountFailure_keep(failures, new_run_files) ==
    IF new_run_files = <<>> THEN failures + 1 ELSE failures

\* lines 353-357
CountFailure(failures, new_run_files) ==
    IF new_run_files = <<>> THEN failures + 1 ELSE 0

\* lines 237-242 returning with the first future that completes
AllCollected_first == Returned # {}

\* lines 237-242: as_completed has yielded every future of the batch
AllCollected == Running = {}

\* lines 241-247: every future has been collected; post-run cleanup
JoinBatch ==
    /\ pc = "batch"
    /\ AllCollected
    /\ pc' = "discover"
    /\ frame' = [frame EXCEPT !.cleanups = @ + 1]
    /\ browsers' = CleanedBrowsers
    /\ UNCHANGED <<args, state, state_file, exc, exit_reason, agents,
                   system_prompt, prompt_history, obs, fn_in, fn_out, trial>>

\* lines 342-357
Discover ==
    /\ pc = "discover"
    /\ pc' = "aggregate"
    /\ frame' = [frame EXCEPT !.new_run_files = NewRunFiles,
                              !.new_transcript_files = NewTranscriptFiles]
    /\ state' = [state EXCEPT !.consecutive_failures =
                    CountFailure(@, NewRunFiles)]
    /\ agents' = [i \in AgentIds |-> IdleAgent]
    /\ UNCHANGED <<args, state_file, exc, exit_reason, system_prompt,
                   prompt_history, browsers, obs, fn_in, fn_out, trial>>

RECURSIVE BestSteps(_)
\* line 372 folded over the run files
BestSteps(files) ==
    IF files = <<>> THEN 0
    ELSE Max(BestSteps(Tail(files)), Head(files).content.steps)

RECURSIVE TotalCost(_)
\* line 369 folded over the run files
TotalCost(files) ==
    IF files = <<>> THEN 0
    ELSE Head(files).content.cost + TotalCost(Tail(files))

\* line 254: json.loads raises on a file that is not valid JSON
Unreadable(files) == \E k \in 1 .. Len(files) : ~files[k].content.valid

\* lines 359-378, every run file readable
Aggregate ==
    /\ pc = "aggregate"
    /\ ~Unreadable(frame.new_run_files)
    /\ pc' = "record"
    /\ frame' = [frame EXCEPT !.best_steps = BestSteps(frame.new_run_files),
                              !.total_agent_cost = TotalCost(frame.new_run_files)]
    /\ UNCHANGED <<args, state, state_file, exc, exit_reason, agents,
                   system_prompt, prompt_history, browsers, obs, fn_in, fn_out, trial>>

\* lines 366-367: read_metrics raises out of run_iteration
AggregateRaises ==
    /\ pc = "aggregate"
    /\ Unreadable(frame.new_run_files)
    /\ pc' = "except"
    /\ exc' = "Exception"
    /\ UNCHANGED <<args, state, state_file, exit_reason, agents, frame,
                   system_prompt, prompt_history, browsers, obs, fn_in, fn_out, trial>>

\* lines 381-392: one entry per (run file, transcript file) pair of the zip
HistoryEntries(iteration, step_target, runs, transcripts) ==
    [k \in 1 .. Min(Len(runs), Len(transcripts)) |->
        [iteration |-> iteration,
         run_file |-> runs[k].name,
         transcript_file |-> transcripts[k],
         steps_completed |-> runs[k].content.steps,
         step_target |-> step_target]]

\* lines 395-404
Placeholder(iteration, step_target) ==
    [iteration |-> iteration,
     run_file |-> NoName,
     transcript_file |-> NoName,
     steps_completed |-> 0,
     step_target |-> step_target]

\* lines 380-404 with the list rebuilt from the batch
RecordedHistory_rebuilt(history, iteration, step_target, runs, transcripts) ==
    HistoryEntries(iteration, step_target, runs, transcripts)
        \o (IF runs = <<>> THEN <<Placeholder(iteration, step_target)>> ELSE <<>>)

\* lines 380-404
RecordedHistory(history, iteration, step_target, runs, transcripts) ==
    history \o HistoryEntries(iteration, step_target, runs, transcripts)
            \o (IF runs = <<>> THEN <<Placeholder(iteration, step_target)>> ELSE <<>>)

\* lines 380-409
Record ==
    /\ pc = "record"
    /\ pc' = "optimize"
    /\ state' = [state EXCEPT !.trajectory_history =
                    RecordedHistory(@, frame.iteration, frame.step_target,
                                    frame.new_run_files, frame.new_transcript_files)]
    /\ frame' = [frame EXCEPT !.curriculum =
                    check_curriculum(frame.best_steps, frame.step_target,
                                     state.consecutive_clears)]
    /\ UNCHANGED <<args, state_file, exc, exit_reason, agents, system_prompt,
                   prompt_history, browsers, obs, fn_in, fn_out, trial>>

\* line 302 taking the oldest entries
Recent_oldest(history, size) == SubSeq(history, 1, Min(size, Len(history)))

\* line 302
Recent(history, size) ==
    IF Len(history) > size
    THEN SubSeq(history, Len(history) - size + 1, Len(history))
    ELSE history

\* lines 297-315: the transcript paths of the window (files are never deleted)
get_sliding_window(history, size) ==
    SelectSeq(Recent(history, size), LAMBDA e : e.transcript_file # NoName)

\* what run_optimization returns as optimized_prompt
OptimizerOutputs == {P1, MetaPrompt}

\* lines 424-431: run_optimization returned; its judge_feedback is never
\* empty (optimize.py 607-626) and its rollout_analysis is the analysis text
OptimizationReturned(f, p) ==
    [f EXCEPT !.optimized_prompt = p,
              !.judge_feedback = <<"evaluation">>,
              !.rollout_analysis = <<"analysis">>,
              !.optimization_cost = OPTIMIZATION_COST,
              !.optimization = "returned"]

\* lines 432-435 with the prompt of a half-finished optimization kept
OptimizationRaised_partial(f) ==
    [f EXCEPT !.optimization = "raised", !.optimized_prompt = P1]

\* lines 432-435: the exception is printed; the locals keep the values of
\* lines 415-418
OptimizationRaised(f) == [f EXCEPT !.optimization = "raised"]

\* lines 436-437
OptimizationSkipped(f) == [f EXCEPT !.optimization = "skipped"]

\* lines 411-437
Optimize ==
    /\ pc = "optimize"
    /\ pc' = "commit"
    /\ IF get_sliding_window(state.trajectory_history, SLIDING_WINDOW_SIZE) # <<>>
       THEN \/ \E p \in OptimizerOutputs : frame' = OptimizationReturned(frame, p)
            \/ frame' = OptimizationRaised(frame)
       ELSE frame' = OptimizationSkipped(frame)
    /\ UNCHANGED <<args, state, state_file, exc, exit_reason, agents,
                   system_prompt, prompt_history, browsers, obs, fn_in, fn_out, trial>>

\* lines 444-446
Accepted(optimized_prompt, previous_prompt) ==
    IF is_meta_prompt(optimized_prompt) THEN previous_prompt ELSE optimized_prompt

\* lines 111-118, called at line 440: the copy is named after the iteration
\* and the second it is made in
backup_prompt_skip(history, file) == history

backup_prompt(history, file) ==
    IF file # NoPromptFile THEN history \cup {file} ELSE history

BackupPrompt ==
    /\ pc = "commit"
    /\ pc' = "write"
    /\ prompt_history' = backup_prompt(prompt_history, system_prompt)
    /\ UNCHANGED <<args, state, state_file, exc, exit_reason, agents, frame,
                   system_prompt, browsers, obs, fn_in, fn_out, trial>>

\* mutation of WritePrompt: the accepted text is written whatever it is
WritePrompt_unconditional ==
    /\ pc = "write"
    /\ pc' = "persist"
    /\ LET accepted == Accepted(frame.optimized_prompt, frame.previous_prompt)
       IN  /\ frame' = [frame EXCEPT !.optimized_prompt = accepted,
                                     !.prompt_written = TRUE]
           /\ system_prompt' = accepted
           /\ obs' = IF system_prompt # NoPromptFile
                     THEN [obs EXCEPT !.overwritten = @ \cup {system_prompt}]
                     ELSE obs
    /\ UNCHANGED <<args, state, state_file, exc, exit_reason, agents,
                   prompt_history, browsers, fn_in, fn_out, trial>>

\* lines 441-451
WritePrompt ==
    /\ pc = "write"
    /\ pc' = "persist"
    /\ LET accepted == Accepted(frame.optimized_prompt, frame.previous_prompt)
           write == accepted # <<>> /\ accepted # frame.previous_prompt
       IN  /\ frame' = [frame EXCEPT !.optimized_prompt = accepted,
                                     !.prompt_written = write]
           /\ system_prompt' = IF write THEN accepted ELSE system_prompt
           /\ obs' = IF write /\ system_prompt # NoPromptFile
                     THEN [obs EXCEPT !.overwritten = @ \cup {system_prompt}]
                     ELSE obs
    /\ UNCHANGED <<args, state, state_file, exc, exit_reason, agents,
                   prompt_history, browsers, fn_in, fn_out, trial>>

\* lines 485-488; costs are whole units, which round(..., 4) leaves as they are
UpdatedState(s, f) ==
    [s EXCEPT !.iteration = f.iteration + 1,
              !.step_target = f.curriculum.new_target,
              !.consecutive_clears = f.curriculum.consecutive_clears,
              !.total_cost = @ + f.total_agent_cost + f.optimization_cost]

\* lines 457-478: iteration_data without its timestamp
IterationRecord(f) ==
    [iteration |-> f.iteration,
     step_target |-> f.step_target,
     n_agents |-> Len(f.new_run_files),
     best_steps |-> f.best_steps,
     all_run_metrics |-> [k \in 1 .. Len(f.new_run_files) |->
                             f.new_run_files[k].content],
     rollout_analysis |-> f.rollout_analysis,
     judge_feedback |-> f.judge_feedback,
     previous_prompt |-> f.previous_prompt,
     optimized_prompt |-> f.optimized_prompt,
     curriculum |-> [consecutive_clears |-> f.curriculum.consecutive_clears,
                     advanced |-> f.curriculum.advanced,
                     next_target |-> f.curriculum.new_target],
     cost |-> [agent_cost |-> f.total_agent_cost,
               optimization_cost |-> f.optimization_cost,
               total |-> f.total_agent_cost + f.optimization_cost]]

\* lines 453-499
Persist ==
    /\ pc = "persist"
    /\ pc' = "loop"
    /\ frame' = [frame EXCEPT !.iteration_record = IterationRecord(frame)]
    /\ state' = UpdatedState(state, frame)
    /\ state_file' = save_state(state')
    /\ obs' = [obs EXCEPT
          !.last_save = "iteration",
          !.crash_streak = IF frame.new_run_files # <<>> THEN 0
                           ELSE IF @ < 0 THEN @ ELSE @ + 1,
          !.all_cleared = @ /\ frame.new_run_files # <<>>
                            /\ frame.best_steps >= frame.step_target]
    /\ UNCHANGED <<args, exc, exit_reason, agents, system_prompt,
                   prompt_history, browsers, fn_in, fn_out, trial>>

(* ================== exceptions and the handlers of main ================ *)

\* positions inside run_iteration, i.e. inside the try of lines 557-558
InIteration == {"batch", "discover", "aggregate", "record", "optimize",
                "commit", "write", "persist"}

\* the operator's Ctrl-C: KeyboardInterrupt is raised in the main thread.
\* Inside the with-block of line 231 it first runs the executor's
\* shutdown(wait=True), which joins the workers. One interrupt per run.
Interrupt ==
    /\ pc \in InIteration
    /\ exc = "none"
    /\ exc' = "KeyboardInterrupt"
    /\ pc' = IF pc = "batch" THEN "unwind" ELSE "except"
    /\ obs' = [obs EXCEPT !.in_flight = IF pc = "batch" THEN Running ELSE {}]
    /\ UNCHANGED <<args, state, state_file, exit_reason, agents, frame,
                   system_prompt, prompt_history, browsers, fn_in, fn_out, trial>>

\* lines 238-240: collecting or printing a finished trial's result raises
BatchRaises ==
    /\ pc = "batch"
    /\ Returned # {}
    /\ exc' = "Exception"
    /\ pc' = "unwind"
    /\ UNCHANGED <<args, state, state_file, exit_reason, agents, frame,
                   system_prompt, prompt_history, browsers, obs, fn_in, fn_out, trial>>

\* line 231, __exit__ of the executor: the exception leaves the with-block
\* once every worker has returned; lines 243-245 are skipped
Unwound ==
    /\ pc = "unwind"
    /\ Running = {}
    /\ pc' = "except"
    /\ UNCHANGED <<args, state, state_file, exc, exit_reason, agents, frame,
                   system_prompt, prompt_history, browsers, obs, fn_in, fn_out, trial>>

\* lines 481, 490: writing the iteration record or the snapshot fails
WriteRaises ==
    /\ pc = "persist"
    /\ exc' = "Exception"
    /\ pc' = "except"
    /\ UNCHANGED <<args, state, state_file, exit_reason, agents, frame,
                   system_prompt, prompt_history, browsers, obs, fn_in, fn_out, trial>>

\* mutation of ExceptKeyboardInterrupt: exit without save_state
ExceptKeyboardInterrupt_nosave ==
    /\ pc = "except"
    /\ exc = "KeyboardInterrupt"
    /\ pc' = "exited"
    /\ exit_reason' = "interrupted"
    /\ obs' = [obs EXCEPT !.last_save = "interrupt"]
    /\ UNCHANGED <<args, state, state_file, exc, agents, frame, system_prompt,
                   prompt_history, browsers, fn_in, fn_out, trial>>

\* lines 559-562
ExceptKeyboardInterrupt ==
    /\ pc = "except"
    /\ exc = "KeyboardInterrupt"
    /\ state_file' = save_state(state)
    /\ pc' = "exited"
    /\ exit_reason' = "interrupted"
    /\ obs' = [obs EXCEPT !.last_save = "interrupt"]
    /\ UNCHANGED <<args, state, exc, agents, frame, system_prompt,
                   prompt_history, browsers, fn_in, fn_out, trial>>

\* lines 568-569 without line 568
AfterFailure_stuck(s) == [s EXCEPT !.consecutive_failures = @ + 1]

\* lines 568-569
AfterFailure(s) ==
    [s EXCEPT !.iteration = @ + 1, !.consecutive_failures = @ + 1]

\* lines 563-569
ExceptException ==
    /\ pc = "except"
    /\ exc = "Exception"
    /\ state_file' = save_state(state)
    /\ state' = AfterFailure(state)
    /\ pc' = "loop"
    /\ exc' = "none"
    /\ agents' = [i \in AgentIds |-> IdleAgent]
    /\ obs' = [obs EXCEPT !.last_save = "exception",
                          !.crash_streak = -1,
                          !.all_cleared = FALSE]
    /\ UNCHANGED <<args, exit_reason, frame, system_prompt, prompt_history,
                   browsers, fn_in, fn_out, trial>>

Next ==
    \/ ExitMaxIterations
    \/ ExitMastered
    \/ ExitFailures
    \/ EnterIteration
    \/ \E i \in AgentIds : AgentExits(i)
    \/ \E i \in AgentIds : AgentTimesOut(i)
    \/ \E i \in AgentIds : AgentLaunchFails(i)
    \/ JoinBatch
    \/ Discover
    \/ Aggregate
    \/ AggregateRaises
    \/ Record
    \/ Optimize
    \/ BackupPrompt
    \/ WritePrompt
    \/ Persist
    \/ Interrupt
    \/ BatchRaises
    \/ Unwound
    \/ WriteRaises
    \/ ExceptKeyboardInterrupt
    \/ ExceptException

Spec == Init /\ [][Next]_vars

(* ========== check_curriculum as a function of arbitrary inputs ========= *)

InitCurriculum ==
    /\ args = [initial_target |-> 2, max_iterations |-> 1,
               n_agents |-> ManyAgents]
    /\ state = make_fresh_state(args.initial_target)
    /\ state_file = NoSnapshot
    /\ pc = "call"
    /\ exc = "none"
    /\ exit_reason = "none"
    /\ agents = [i \in AgentIds |-> IdleAgent]
    /\ frame = FreshFrame(0, 0, P0)
    /\ system_prompt = P0
    /\ prompt_history = {}
    /\ browsers = {}
    /\ obs = InitObs
    /\ fn_in \in [kind : {"check_curriculum"},
                  best_steps : 0 .. MaxStepsIn,
                  step_target : 0 .. MaxStepsIn,
                  consecutive_clears : 0 .. MaxClearsIn]
    /\ fn_out = NoOutput
    /\ trial = NoTrial

CallCheckCurriculum ==
    /\ pc = "call"
    /\ pc' = "returned"
    /\ fn_out' = [called |-> TRUE,
                  result |-> check_curriculum(fn_in.best_steps, fn_in.step_target,
                                              fn_in.consecutive_clears)]
    /\ UNCHANGED <<args, state, state_file, exc, exit_reason, agents, frame,
                   system_prompt, prompt_history, browsers, obs, fn_in, trial>>

NextCurriculum == CallCheckCurriculum

SpecCurriculum == InitCurriculum /\ [][NextCurriculum]_vars

(* ================= properties of check_curriculum ====================== *)

\* C1: a batch is a clear iff best_steps >= step_target; a clear raises the
\* counter by exactly one (it is 0 afterwards only when the advancement
\* reset it), and a non-clear returns counter 0, the target unchanged and
\* advanced = FALSE.
C1_ClearCounting ==
    fn_out.called =>
        LET r == fn_out.result
            cleared == fn_in.best_steps >= fn_in.step_target
        IN  /\ cleared =>
                \/ r.consecutive_clears = fn_in.consecutive_clears + 1
                \/ /\ r.advanced
                   /\ r.consecutive_clears = 0
                   /\ fn_in.consecutive_clears + 1 >= CONSECUTIVE_CLEARS_TO_ADVANCE
            /\ ~cleared =>
                r = [new_target |-> fn_in.step_target,
                     consecutive_clears |-> 0,
                     advanced |-> FALSE]

\* a first clear at the target: the counter goes from 0 to 1
C1_Witness ==
    /\ fn_out.called
    /\ fn_in.best_steps = fn_in.step_target
    /\ fn_in.consecutive_clears = 0
    /\ fn_out.result.consecutive_clears = 1
    /\ ~fn_out.result.advanced

\* the clear counter of the inputs after counting the batch
CountedInput ==
    IF fn_in.best_steps >= fn_in.step_target
    THEN fn_in.consecutive_clears + 1 ELSE 0

AdvancedResult ==
    [new_target |-> Min(fn_in.step_target + STEP_INCREMENT, MAX_STEPS),
     consecutive_clears |-> 0,
     advanced |-> TRUE]

\* C2 as stated: whenever the counted clears reach the threshold the result
\* is (min(target + STEP_INCREMENT, MAX_STEPS), 0, TRUE), for every target up
\* to and including MAX_STEPS.
C2_AdvanceUpToCeiling ==
    (/\ fn_out.called
     /\ CountedInput >= CONSECUTIVE_CLEARS_TO_ADVANCE
     /\ fn_in.step_target <= MAX_STEPS)
    => fn_out.result = AdvancedResult

\* C2 amended: that result is returned for every target below MAX_STEPS; at
\* target = MAX_STEPS the target stays MAX_STEPS, advanced is FALSE and the
\* counter keeps its counted value.
C2_AdvanceBelowCeiling ==
    (fn_out.called /\ CountedInput >= CONSECUTIVE_CLEARS_TO_ADVANCE) =>
        /\ fn_in.step_target < MAX_STEPS => fn_out.result = AdvancedResult
        /\ fn_in.step_target = MAX_STEPS =>
              fn_out.result = [new_target |-> MAX_STEPS,
                               consecutive_clears |-> CountedInput,
                               advanced |-> FALSE]

\* the capped advancement: one step below the ceiling the increment is cut
C2_Witness ==
    /\ fn_out.called
    /\ fn_in.step_target = MAX_STEPS - 1
    /\ CountedInput = CONSECUTIVE_CLEARS_TO_ADVANCE
    /\ fn_out.result = [new_target |-> MAX_STEPS, consecutive_clears |-> 0,
                        advanced |-> TRUE]

\* C3: advanced = TRUE only if the counted clears reached the threshold, and
\* then the returned counter is 0 and the target is the old one plus
\* STEP_INCREMENT capped at MAX_STEPS; target 2, counter 1, best 2 gives
\* target 4, counter 0.
C3_AdvancedOnlyAtThreshold ==
    fn_out.called =>
        /\ fn_out.result.advanced =>
              /\ CountedInput >= CONSECUTIVE_CLEARS_TO_ADVANCE
              /\ fn_out.result = AdvancedResult
        /\ (fn_in.step_target = 2 /\ fn_in.consecutive_clears = 1
                /\ fn_in.best_steps = 2) =>
              fn_out.result = [new_target |-> 4, consecutive_clears |-> 0,
                               advanced |-> TRUE]

\* scenario A of the specification
C3_Witness ==
    /\ fn_out.called
    /\ fn_in.step_target = 2
    /\ fn_in.consecutive_clears = 1
    /\ fn_in.best_steps = 2
    /\ fn_out.result.advanced
    /\ fn_out.result.new_target = 4

(* ===================== properties of the main loop ===================== *)

\* the iterations a run needs to carry its initial target past the ceiling
\* when every batch clears
IterationsToMaster ==
    IF args.initial_target > MAX_STEPS THEN 0
    ELSE CONSECUTIVE_CLEARS_TO_ADVANCE
            * ((MAX_STEPS - args.initial_target) \div STEP_INCREMENT + 1)

\* C4: a run in which every batch clears its target, with max_iterations
\* large enough, leaves the loop through the training-complete exit and not
\* through the iteration cap.
C4_AllClearedEndsMastered ==
    (/\ pc = "done"
     /\ obs.all_cleared
     /\ args.max_iterations > IterationsToMaster)
    => exit_reason = "mastered"

\* the positions at which a batch has been issued and the pass is not over
InPass == InIteration \cup {"unwind", "except"}

\* C5: from a failure counter of 0, the loop issues another batch after one
\* and after two consecutive crash batches, issues none after the third, and
\* never issues a batch with consecutive_failures >= MAX_CONSECUTIVE_FAILURES.
C5_CircuitBreaker ==
    /\ (/\ pc = "loop"
        /\ obs.crash_streak \in {1, 2}
        /\ state.iteration < args.max_iterations
        /\ state.step_target <= MAX_STEPS) => ENABLED EnterIteration
    /\ (pc = "loop" /\ obs.crash_streak >= MAX_CONSECUTIVE_FAILURES)
            => ~ENABLED EnterIteration
    /\ pc \in InPass => obs.entry.consecutive_failures < MAX_CONSECUTIVE_FAILURES

\* the loop was left by the breaker after exactly three crash batches
C5_Witness ==
    /\ pc = "done"
    /\ exit_reason = "failures"
    /\ obs.crash_streak = MAX_CONSECUTIVE_FAILURES
    /\ state.iteration = MAX_CONSECUTIVE_FAILURES

\* the last pass of the loop was a completed run_iteration
IterationCompleted == pc \in {"loop", "done"} /\ obs.last_save = "iteration"

\* C6: after a completed run_iteration consecutive_failures is its previous
\* value plus one if the batch wrote no run file, and 0 if at least one agent
\* wrote one.
C6_FailureCounter ==
    IterationCompleted =>
        state.consecutive_failures =
            IF obs.wrote_run = {} THEN obs.entry.consecutive_failures + 1 ELSE 0

\* a batch in which one trial crashed and another wrote its run file
C6_Witness ==
    /\ IterationCompleted
    /\ obs.wrote_run # {}
    /\ obs.wrote_run # AgentIds
    /\ state.consecutive_failures = 0

\* C7: the shared-resource cleanup has run once while the trials of a batch
\* run, and twice once the batch is over, on every exit path of the batch.
C7_CleanupOnEveryExit ==
    /\ pc \in {"batch", "unwind"} => frame.cleanups = 1
    /\ pc \in (InPass \ {"batch", "unwind"}) \cup {"exited"} => frame.cleanups = 2

\* C8: when the operator interrupted while trials were in flight, then once
\* the controller has exited none of those trials is still running and no
\* process of their process groups is alive.
C8_NothingSurvivesInterrupt ==
    (pc = "exited" /\ obs.in_flight # {}) =>
        \A i \in obs.in_flight :
            /\ agents[i].st # "running"
            /\ i \notin browsers

\* C9: after a KeyboardInterrupt inside an iteration no batch is issued, and
\* when the process has exited the snapshot holds the TrainingState.
C9_InterruptPersists ==
    /\ exc = "KeyboardInterrupt" => pc \in {"unwind", "except", "exited"}
    /\ pc = "exited" =>
          /\ exc = "KeyboardInterrupt"
          /\ state_file = state
          /\ obs.last_save = "interrupt"

\* interrupted while trials were in flight, exited with the state persisted
C9_Witness ==
    /\ pc = "exited"
    /\ obs.in_flight # {}
    /\ state_file = state

SnapshotFields(s) ==
    <<s.trajectory_history, s.consecutive_failures, s.consecutive_clears,
      s.step_target, s.total_cost>>

\* C10: the snapshot written when an iteration is interrupted or aborts
\* carries no effect of that iteration: history, counters, target and cost
\* are those the TrainingState had when the iteration began.
C10_AbortedSnapshotUntouched ==
    obs.last_save \in {"interrupt", "exception"} =>
        SnapshotFields(state_file) = SnapshotFields(obs.entry)

(* ============ the prompt update of one iteration, on its own =========== *)

\* str.upper() on one character; used to build candidates only
UpperChar(c) ==
    IF \E u \in DOMAIN LowerMap : LowerMap[u] = c
    THEN CHOOSE u \in DOMAIN LowerMap : LowerMap[u] = c
    ELSE c

Shout(text) == [k \in 1 .. Len(text) |-> UpperChar(text[k])]

\* n characters that belong to no pattern
Pad(n) == [k \in 1 .. n |-> "x"]

\* where a pattern of that length may start: at the first character, so that
\* it ends with character 200, so that it ends with character 201, and after
\* the scanned prefix
PadChoices(len) ==
    {0, SCANNED_PREFIX - len, SCANNED_PREFIX - len + 1, SCANNED_PREFIX}

\* the candidates: padding, then a pattern (0: none) in lower or upper case,
\* then the rest of the text; with them the SYSTEM.md the iteration found
CommitInputs ==
    LET WithPattern ==
            UNION {[kind : {"commit"}, phrase : {k},
                    pad : PadChoices(Len(bad_patterns[k])),
                    shout : BOOLEAN, tail : {<<>>, P1},
                    file : {NoPromptFile, P0, P1}] : k \in 1 .. Len(bad_patterns)}
        Plain ==
            [kind : {"commit"}, phrase : {0}, pad : {0, 1}, shout : {FALSE},
             tail : {<<>>, P1}, file : {NoPromptFile, P0, P1}]
    IN  WithPattern \cup Plain

CandidateText(in) ==
    LET pattern == IF in.phrase = 0 THEN <<>> ELSE bad_patterns[in.phrase]
    IN  Pad(in.pad) \o (IF in.shout THEN Shout(pattern) ELSE pattern) \o in.tail

\* run_iteration at line 439: run_optimization has returned the candidate
InitCommit ==
    /\ args = [initial_target |-> 2, max_iterations |-> 1, n_agents |-> 1]
    /\ state = make_fresh_state(args.initial_target)
    /\ state_file = NoSnapshot
    /\ pc = "commit"
    /\ exc = "none"
    /\ exit_reason = "none"
    /\ agents = [i \in AgentIds |-> IdleAgent]
    /\ fn_in \in CommitInputs
    /\ system_prompt = fn_in.file
    /\ prompt_history = IF fn_in.file = P1 THEN {P0} ELSE {}
    /\ frame = [FreshFrame(0, args.initial_target, ReadPrompt(fn_in.file))
                   EXCEPT !.cleanups = 2,
                          !.optimized_prompt = CandidateText(fn_in),
                          !.optimization_cost = OPTIMIZATION_COST,
                          !.optimization = "returned"]
    /\ browsers = {}
    /\ obs = InitObs
    /\ fn_out = NoOutput
    /\ trial = NoTrial

NextCommit ==
    \/ BackupPrompt
    \/ WritePrompt

SpecCommit == InitCommit /\ [][NextCommit]_vars

\* the candidate holds a denylisted pattern, in whatever case, that lies
\* within its first 200 characters
MetaWithinPrefix(in) ==
    /\ in.phrase # 0
    /\ in.pad + Len(bad_patterns[in.phrase]) <= SCANNED_PREFIX

C12_StraddlingWritten ==
    /\ pc = "persist"
    /\ fn_in.kind = "commit"
    /\ fn_in.phrase = 1 /\ ~fn_in.shout
    /\ fn_in.pad = SCANNED_PREFIX - Len(bad_patterns[1]) + 1
    /\ frame.prompt_written
    /\ system_prompt = CandidateText(fn_in)

\* C13: in every iteration the current SYSTEM.md is copied into the prompt
\* history before the iteration writes SYSTEM.md, so whenever the controller
\* is about to write, and at every moment after a write, the content that is
\* or was replaced exists as a backup.
C13_BackupBeforeWrite ==
    /\ (pc = "write" /\ system_prompt # NoPromptFile) =>
            system_prompt \in prompt_history
    /\ obs.overwritten \subseteq prompt_history

\* the optimizer's prompt has replaced the initial one
C13_Witness ==
    /\ frame.prompt_written
    /\ system_prompt = P1
    /\ obs.overwritten = {P0}

\* C14: discovery, the curriculum decision, the write of SYSTEM.md and the
\* state update happen only after every worker of the batch has returned: a
\* controller that is past the batch, or back at the loop head, has no worker
\* still running, so no decision rests on a partial batch and no two
\* iterations overlap.
C14_JoinBarrier ==
    (pc \notin {"batch", "unwind"}) =>
        \A i \in AgentIds : agents[i].st # "running"

\* discovery is about to read the files of a batch of several workers that
\* ended in different ways
C14_Witness ==
    /\ pc = "discover"
    /\ args.n_agents = ManyAgents
    /\ \E i, j \in AgentIds :
          /\ agents[i].st = "returned" /\ agents[i].how = "timeout"
          /\ agents[j].st = "returned" /\ agents[j].how = "exit"

(* ================ one call of _run_single_agent, in steps ============== *)

\* line 54
MAX_TURNS == 300

\* line 175 with a budget that shrinks as the target grows
TurnBudget_shrinking(step_target) == MAX_TURNS - 10 * step_target

\* line 175: str(MAX_TURNS), whatever the step target
TurnBudget(step_target) == MAX_TURNS

\* lines 173-178, without the inherited os.environ
AgentEnv(step_target, agent_id) ==
    [MAX_TURNS |-> TurnBudget(step_target),
     MAX_STEPS |-> step_target,
     BROWSER_DATA_DIR |-> BrowserDir(agent_id)]

NoEnv == [MAX_TURNS |-> 0, MAX_STEPS |-> 0, BROWSER_DATA_DIR |-> <<>>]

\* lines 170 and 215 leaving the tree in place
rmtree_keep(exists) == exists

\* lines 170 and 215: shutil.rmtree(browser_dir, ignore_errors=True) on a tree
\* of the runner's own making; what is handed in is whether the tree exists
rmtree(exists) == FALSE

\* lines 129 and 135 catching ProcessLookupError only
KillSwallows_lookup == {"ProcessLookupError"}

\* lines 129 and 135: except (ProcessLookupError, PermissionError)
KillSwallows == {"ProcessLookupError", "PermissionError"}

\* what os.killpg raises when the group is gone or is not the runner's to signal
KillErrors == {"ProcessLookupError", "PermissionError"}

NoResult == [rc |-> 0, out |-> "none"]

\* the call _run_single_agent(step_target, agent_id); stale: a directory of
\* an earlier batch is still there; ignores_term: the agent's processes
\* do not exit on SIGTERM
StartTrial(agent_id, step_target, stale, ignores_term) ==
    [pos |-> "start",
     agent_id |-> agent_id,
     step_target |-> step_target,
     env |-> NoEnv,
     dir |-> stale,               \* .browser-data-<agent_id> exists
     made_dir |-> FALSE,          \* the agent's browser has created it
     proc |-> "none",             \* the agent process: none, running, exited
     own_session |-> FALSE,       \* it leads a session and group of its own
     returncode |-> 0,
     browser |-> FALSE,           \* a browser descendant is alive in the group
     ignores_term |-> ignores_term,
     signals |-> <<>>,            \* signals the runner sent to the group
     kill_return |-> "none",      \* where _kill_process_tree returns to
     kill_errors |-> {},          \* errors os.killpg raised
     how |-> "none",
     result |-> NoResult,
     raised |-> "none"]

\* the variables of the training loop, which a trial leaves alone
LoopUnchanged ==
    UNCHANGED <<args, state, state_file, pc, exc, exit_reason, agents, frame,
                system_prompt, prompt_history, browsers, obs, fn_in, fn_out>>

\* lines 168-178
TrialStart ==
    /\ trial.pos = "start"
    /\ trial' = [trial EXCEPT !.pos = "popen",
                              !.dir = IF @ THEN rmtree(@) ELSE @,
                              !.env = AgentEnv(trial.step_target, trial.agent_id)]
    /\ LoopUnchanged

\* lines 181-189: the agent is started with start_new_session=True
PopenSucceeds ==
    /\ trial.pos = "popen"
    /\ trial' = [trial EXCEPT !.pos = "communicate", !.proc = "running",
                              !.own_session = TRUE]
    /\ LoopUnchanged

\* lines 181-189 raising (bun is missing, fork fails), caught at 203-204
PopenFails ==
    /\ trial.pos = "popen"
    /\ trial' = [trial EXCEPT !.pos = "finally", !.how = "launch_error",
                              !.result = [rc |-> -1, out |-> "error"]]
    /\ LoopUnchanged

\* the agent launches its browser, which creates BROWSER_DATA_DIR
AgentOpensBrowser ==
    /\ trial.pos = "communicate"
    /\ trial.proc = "running"
    /\ ~trial.browser
    /\ trial' = [trial EXCEPT !.browser = TRUE, !.dir = TRUE, !.made_dir = TRUE]
    /\ LoopUnchanged

\* the agent process ends by itself, closing its browser or leaving it behind
AgentProcessExits ==
    /\ trial.pos = "communicate"
    /\ trial.proc = "running"
    /\ \E rc \in {0, 1}, closes \in BOOLEAN :
          trial' = [trial EXCEPT !.proc = "exited", !.returncode = rc,
                                 !.browser = @ /\ ~closes]
    /\ LoopUnchanged

\* lines 190-191
CommunicateReturns ==
    /\ trial.pos = "communicate"
    /\ trial.proc = "exited"
    /\ trial' = [trial EXCEPT !.pos = "finally", !.how = "exit",
                              !.result = [rc |-> trial.returncode, out |-> "output"]]
    /\ LoopUnchanged

\* mutation of CommunicateTimesOut: communicate() without a timeout, which
\* ends only when the process has
CommunicateTimesOut_never ==
    /\ trial.pos = "communicate"
    /\ trial.proc = "exited"
    /\ trial' = [trial EXCEPT !.pos = "finally", !.how = "exit",
                              !.result = [rc |-> trial.returncode, out |-> "output"]]
    /\ LoopUnchanged

\* lines 192-194: SUBPROCESS_TIMEOUT passes
CommunicateTimesOut ==
    /\ trial.pos = "communicate"
    /\ trial.proc = "running"
    /\ trial' = [trial EXCEPT !.pos = "kill", !.how = "timeout",
                              !.kill_return = "drain"]
    /\ LoopUnchanged

\* lines 190 and 203-204: communicate raises something else (undecodable
\* output, a broken pipe)
CommunicateRaises ==
    /\ trial.pos = "communicate"
    /\ trial' = [trial EXCEPT !.pos = "finally", !.how = "error",
                              !.result = [rc |-> -1, out |-> "error"]]
    /\ LoopUnchanged

\* what a signal sent to the group does to the processes in it
Delivered(t, sig) ==
    IF sig = "SIGTERM" /\ t.ignores_term
    THEN [t EXCEPT !.signals = Append(@, sig)]
    ELSE [t EXCEPT !.signals = Append(@, sig),
                   !.proc = IF @ = "running" THEN "exited" ELSE @,
                   !.returncode = IF t.proc = "running"
                                  THEN (IF sig = "SIGTERM" THEN -15 ELSE -9)
                                  ELSE @,
                   !.browser = FALSE]

\* an error of os.killpg inside _kill_process_tree: swallowed there, or
\* propagating out of _run_single_agent
KillFailed(t, e) ==
    IF e \in KillSwallows
    THEN [t EXCEPT !.kill_errors = @ \cup {e}, !.pos = t.kill_return]
    ELSE [t EXCEPT !.kill_errors = @ \cup {e}, !.pos = "raised", !.raised = e]

\* lines 125-130: getpgid, killpg(SIGTERM)
KillTerm ==
    /\ trial.pos = "kill"
    /\ \/ trial' = [Delivered(trial, "SIGTERM") EXCEPT !.pos = "grace"]
       \/ \E e \in KillErrors : trial' = KillFailed(trial, e)
    /\ LoopUnchanged

\* lines 131-136: sleep(2), killpg(SIGKILL)
KillKill ==
    /\ trial.pos = "grace"
    /\ \/ trial' = [Delivered(trial, "SIGKILL") EXCEPT !.pos = trial.kill_return]
       \/ \E e \in KillErrors : trial' = KillFailed(trial, e)
    /\ LoopUnchanged

\* lines 195-202: communicate(timeout=5) returns the buffered output, or
\* raises because the process is still there, which is passed over
Drain ==
    /\ trial.pos = "drain"
    /\ trial' = [trial EXCEPT !.pos = "finally",
                    !.result = [rc |-> -1,
                                out |-> IF trial.proc = "exited"
                                        THEN "TIMEOUT and output" ELSE "TIMEOUT"]]
    /\ LoopUnchanged

\* lines 205-208: proc and proc.poll() is None
Finally ==
    /\ trial.pos = "finally"
    /\ trial' = IF trial.proc = "running"
                THEN [trial EXCEPT !.pos = "kill", !.kill_return = "wait"]
                ELSE [trial EXCEPT !.pos = "cleanup"]
    /\ LoopUnchanged

\* lines 209-212: wait(timeout=5) returns, or times out and is passed over
Wait ==
    /\ trial.pos = "wait"
    /\ trial' = [trial EXCEPT !.pos = "cleanup"]
    /\ LoopUnchanged

\* lines 213-215, then the return of the pair to the executor
Cleanup ==
    /\ trial.pos = "cleanup"
    /\ trial' = [trial EXCEPT !.pos = "returned",
                              !.dir = IF @ THEN rmtree(@) ELSE @]
    /\ LoopUnchanged

\* the step targets a batch may run with
TrialTargets == 1 .. MAX_STEPS

\* a worker of a running batch is about to execute _run_single_agent
InitTrial ==
    /\ args = [initial_target |-> 2, max_iterations |-> 1, n_agents |-> ManyAgents]
    /\ state = make_fresh_state(args.initial_target)
    /\ state_file = NoSnapshot
    /\ pc = "batch"
    /\ exc = "none"
    /\ exit_reason = "none"
    /\ agents = [i \in AgentIds |-> SubmittedAgent(i)]
    /\ frame = [FreshFrame(0, args.initial_target, P0) EXCEPT !.cleanups = 1]
    /\ system_prompt = P0
    /\ prompt_history = {}
    /\ browsers = {}
    /\ obs = InitObs
    /\ fn_in = NoInput
    /\ fn_out = NoOutput
    /\ trial \in {StartTrial(i, t, stale, ign) :
                     i \in AgentIds, t \in TrialTargets,
                     stale \in BOOLEAN, ign \in BOOLEAN}

NextTrial ==
    \/ TrialStart
    \/ PopenSucceeds
    \/ PopenFails
    \/ AgentOpensBrowser
    \/ AgentProcessExits
    \/ CommunicateReturns
    \/ CommunicateTimesOut
    \/ CommunicateRaises
    \/ KillTerm
    \/ KillKill
    \/ Drain
    \/ Finally
    \/ Wait
    \/ Cleanup

SpecTrial == InitTrial /\ [][NextTrial]_vars

\* the trial had a process group that could be signalled
Signallable(t) == t.proc # "none" /\ t.kill_errors = {}

\* C15: on every trial that times out, and on every trial whose agent ends
\* with a non-zero exit code, the runner signals the agent's whole process
\* group, SIGTERM first and SIGKILL after the grace period.  (A launch error
\* leaves no process group behind.)
C15_GroupSignalled ==
    (/\ trial.pos = "returned"
     /\ Signallable(trial)
     /\ \/ trial.how = "timeout"
        \/ trial.how = "exit" /\ trial.result.rc # 0) =>
        trial.signals = <<"SIGTERM", "SIGKILL">>

C18_AlwaysReturnsPair ==
    /\ trial.pos # "raised"
    /\ trial.pos = "returned" =>
          /\ trial.result # NoResult
          /\ trial.how = "exit" => trial.result.rc = trial.returncode
          /\ trial.how \in {"timeout", "launch_error", "error"} =>
                trial.result.rc = -1

\* a trial has returned -1 after a timeout during which killpg failed
C18_Witness ==
    /\ trial.pos = "returned"
    /\ trial.how = "timeout"
    /\ trial.kill_errors # {}
    /\ trial.result.rc = -1

\* C16: within one batch no two concurrent trials share a directory or a
\* process group: trial i works in .browser-data-i, the ids 0..n-1 are
\* pairwise distinct, and each agent leads a session of its own, apart from
\* the runner's.
C16_TrialsIsolated ==
    \A i \in Running :
        /\ agents[i].dir = BrowserDir(i)
        /\ agents[i].session # RunnerSession
        /\ \A j \in Running \ {i} :
              /\ agents[i].dir # agents[j].dir
              /\ agents[i].session # agents[j].session

\* all trials of a batch of several are in flight
C16_Witness ==
    /\ pc = "batch"
    /\ args.n_agents = ManyAgents
    /\ Running = AgentIds

(* ================== an optimization that raises ======================== *)

\* C19: when run_optimization raises, SYSTEM.md keeps the content it had
\* before, and the iteration still completes: its record is written with the
\* previous prompt as optimized prompt, the iteration counter advances by one,
\* the state is persisted, and the controller is back at the loop head.
C19_OptimizerFailureContained ==
    frame.optimization = "raised" =>
        /\ ReadPrompt(system_prompt) = frame.previous_prompt
        /\ ~frame.prompt_written
        /\ IterationCompleted =>
              /\ frame.iteration_record # NoRecord
              /\ frame.iteration_record.iteration = obs.entry.iteration
              /\ frame.iteration_record.optimized_prompt = frame.previous_prompt
              /\ state.iteration = obs.entry.iteration + 1
              /\ state_file = state

\* an iteration whose optimization raised has completed and the loop goes on
C19_Witness ==
    /\ pc = "loop"
    /\ IterationCompleted
    /\ frame.optimization = "raised"
    /\ frame.iteration_record # NoRecord
    /\ ENABLED EnterIteration

\* the record the iteration writes for the locals f
RecordOf(f) ==
    IterationRecord([f EXCEPT !.optimized_prompt =
                        Accepted(f.optimized_prompt, f.previous_prompt)])

\* the locals of the same iteration had its optimization not raised: not
\* attempted, or returned with some prompt, the unchanged one among them
CleanOutcomes(f) ==
    {OptimizationSkipped(f)} \cup
    {OptimizationReturned(f, p) : p \in OptimizerOutputs \cup {f.previous_prompt}}

\* C20: the record of an iteration whose optimization raised is marked as
\* errored: it differs from every record the iteration writes when its
\* optimization did not raise, in particular from the record of an
\* optimization that succeeded and returned the unchanged prompt.
C20_ErroredRecordMarked ==
    (frame.optimization = "raised" /\ frame.iteration_record # NoRecord) =>
        \A g \in CleanOutcomes(frame) : frame.iteration_record # RecordOf(g)

\* the part of C20 that holds: the costs and the judge feedback tell the
\* record of a raised optimization from that of one that returned
RaisedDiffersFromReturned ==
    (frame.optimization = "raised" /\ frame.iteration_record # NoRecord) =>
        \A p \in OptimizerOutputs \cup {frame.previous_prompt} :
            frame.iteration_record # RecordOf(OptimizationReturned(frame, p))

(* ========================== the turn budget ============================ *)

\* the budget of the module docstring (lines 6-7): 10 turns per target step,
\* at least 30
DocumentedBudget(step_target) == Max(30, 10 * step_target)

\* the environment of the agent has been built
EnvBuilt == trial.pos \notin {"none", "start"}

\* C21: the turn budget passed to a trial is max(30, 10 * step_target), so
\* it follows the step target.
C21_BudgetScalesWithTarget ==
    EnvBuilt => trial.env.MAX_TURNS = DocumentedBudget(trial.step_target)

\* C22: the MAX_TURNS handed to a trial is monotonically non-decreasing in
\* the step target (no trial with a lower target gets more turns, none with
\* a higher target fewer) and lies between the documented minimum of 30 and
\* the cap of 300, for every target up to MAX_STEPS.
C22_BudgetMonotoneBounded ==
    EnvBuilt =>
        /\ DocumentedBudget(1) <= trial.env.MAX_TURNS
        /\ trial.env.MAX_TURNS <= DocumentedBudget(MAX_STEPS)
        /\ \A t \in TrialTargets :
              /\ t <= trial.step_target =>
                    AgentEnv(t, trial.agent_id).MAX_TURNS <= trial.env.MAX_TURNS
              /\ t >= trial.step_target =>
                    AgentEnv(t, trial.agent_id).MAX_TURNS >= trial.env.MAX_TURNS

\* a trial with a target strictly between the smallest and MAX_STEPS has
\* been given its environment and has run to its end
C22_Witness ==
    /\ trial.pos = "returned"
    /\ trial.step_target = 16
    /\ trial.env.MAX_STEPS = 16
    /\ trial.env.MAX_TURNS = MAX_TURNS

(* ============ optimize.py: extract_rollout_steps, in a fold ============ *)

\* the training loop at rest, for the specifications of single functions
LoopAtRest ==
    /\ args = [initial_target |-> 2, max_iterations |-> 1, n_agents |-> 1]
    /\ state = make_fresh_state(args.initial_target)
    /\ state_file = NoSnapshot
    /\ pc = "call"
    /\ exc = "none"
    /\ exit_reason = "none"
    /\ agents = [i \in AgentIds |-> IdleAgent]
    /\ frame = FreshFrame(0, 0, P0)
    /\ system_prompt = P0
    /\ prompt_history = {}
    /\ browsers = {}
    /\ obs = InitObs
    /\ trial = NoTrial

\* the call of the function under study returns: nothing but fn_out changes
Returns(result) ==
    /\ pc = "call"
    /\ pc' = "returned"
    /\ fn_out' = result
    /\ UNCHANGED <<args, state, state_file, exc, exit_reason, agents, frame,
                   system_prompt, prompt_history, browsers, obs, fn_in, trial>>

\* blocks of a message's content list; body is the text of a text block, the
\* name of a tool_use block, the content of a tool_result block (is_str: that
\* content is a str and not a list of blocks)
TextBlock(t) == [is_dict |-> TRUE, type |-> "text", body |-> t, is_str |-> TRUE]
ToolUse(name) == [is_dict |-> TRUE, type |-> "tool_use", body |-> name, is_str |-> TRUE]
ToolResult(r) == [is_dict |-> TRUE, type |-> "tool_result", body |-> r, is_str |-> TRUE]
RichToolResult == [is_dict |-> TRUE, type |-> "tool_result", body |-> <<>>, is_str |-> FALSE]

\* a message: a dict with role and content, the content a list of blocks or
\* a plain string; or an element of the log that is no dict at all
Message(role, blocks) ==
    [is_dict |-> TRUE, role |-> role, is_list |-> TRUE, blocks |-> blocks]
PlainMessage(role) ==
    [is_dict |-> TRUE, role |-> role, is_list |-> FALSE, blocks |-> <<>>]
NotAMessage ==
    [is_dict |-> FALSE, role |-> "", is_list |-> FALSE, blocks |-> <<>>]

\* lines 116 and 145: a fresh open turn
EmptyStep == [agent_text |-> <<>>, tool_calls |-> <<>>, tool_results |-> <<>>]

\* the bodies of the blocks of the given type, in order
Bodies(blocks, type, strings_only) ==
    LET chosen == SelectSeq(blocks, LAMBDA b : /\ b.is_dict
                                               /\ b.type = type
                                               /\ (strings_only => b.is_str))
    IN  [k \in 1 .. Len(chosen) |-> chosen[k].body]

\* lines 135 and 143: reached for every user message whose content is a
\* list; the open turn is sealed when it has a tool call
SealsTurn(msg, step) == step.tool_calls # <<>>

\* lines 118-145 for the k-th message; acc holds the records sealed so far,
\* the open turn, whether msg.get has raised, and for every record the index
\* of the message that sealed it
FoldMessage(acc, msg, k) ==
    IF acc.raised THEN acc
    ELSE IF ~msg.is_dict THEN [acc EXCEPT !.raised = TRUE]
    ELSE IF msg.role = "assistant" /\ msg.is_list
    THEN [acc EXCEPT
            !.current.agent_text = @ \o Bodies(msg.blocks, "text", FALSE),
            !.current.tool_calls = @ \o Bodies(msg.blocks, "tool_use", FALSE)]
    ELSE IF msg.role = "user" /\ msg.is_list
    THEN LET step == [acc.current EXCEPT
                        !.tool_results = @ \o Bodies(msg.blocks, "tool_result", TRUE)]
         IN  IF SealsTurn(msg, step)
             THEN [acc EXCEPT !.steps = Append(@, step),
                              !.sealed_at = Append(@, k),
                              !.current = EmptyStep]
             ELSE [acc EXCEPT !.current = step]
    ELSE acc

RECURSIVE FoldMessages(_, _, _)
FoldMessages(messages, k, acc) ==
    IF k > Len(messages) THEN acc
    ELSE FoldMessages(messages, k + 1, FoldMessage(acc, messages[k], k))

\* lines 113-151; data is the parsed JSON of a transcript: a list of
\* messages, or something else (is_list FALSE: a non-empty dict, a number)
extract_rollout_steps(data) ==
    IF ~data.is_list
    THEN [raised |-> TRUE, steps |-> <<>>, sealed_at |-> <<>>, current |-> EmptyStep]
    ELSE LET acc == FoldMessages(data.messages, 1,
                        [raised |-> FALSE, steps |-> <<>>, sealed_at |-> <<>>,
                         current |-> EmptyStep])
         IN  IF ~acc.raised /\ acc.current.tool_calls # <<>>
             THEN [acc EXCEPT !.steps = Append(@, acc.current),
                              !.sealed_at = Append(@, Len(data.messages) + 1),
                              !.current = EmptyStep]
             ELSE acc

\* tool results as the browser tools word them
R_ok == <<"o", "k">>
R_Error == <<"E", "r", "r", "o", "r", ":", " ", "x">>
R_lower == <<"n", "o", " ", "e", "r", "r", "o", "r", "s">>

\* the messages the logs are drawn from
A_text == Message("assistant", <<TextBlock(<<"h", "m">>)>>)
A_one == Message("assistant", <<TextBlock(<<"g", "o">>), ToolUse(<<"c", "l", "i", "c", "k">>)>>)
A_two == Message("assistant", <<ToolUse(<<"c", "l", "i", "c", "k">>), ToolUse(<<"t", "y", "p", "e">>)>>)
A_plain == PlainMessage("assistant")
U_ok == Message("user", <<ToolResult(R_ok)>>)
U_err == Message("user", <<ToolResult(R_lower)>>)
U_mixed == Message("user", <<ToolResult(R_ok), ToolResult(R_Error)>>)
U_rich == Message("user", <<RichToolResult>>)
U_text == Message("user", <<TextBlock(<<"g", "o", " ", "o", "n">>)>>)
U_plain == PlainMessage("user")
Messages ==
    {A_text, A_one, A_two, A_plain, U_ok, U_err, U_mixed, U_rich, U_text,
     U_plain, NotAMessage}

MaxLogLen == 3
Logs == UNION {[1 .. n -> Messages] : n \in 0 .. MaxLogLen}
NotAList == [is_list |-> FALSE, messages |-> <<>>]
TranscriptData == {[is_list |-> TRUE, messages |-> log] : log \in Logs} \cup {NotAList}

InitRollout ==
    /\ LoopAtRest
    /\ fn_in \in [kind : {"extract"}, data : TranscriptData]
    /\ fn_out = NoOutput

CallExtract ==
    /\ fn_in.kind = "extract"
    /\ Returns([called |-> TRUE, result |-> extract_rollout_steps(fn_in.data)])

NextRollout == CallExtract

SpecRollout == InitRollout /\ [][NextRollout]_vars

Extracted == fn_in.kind = "extract" /\ fn_out.called /\ ~fn_out.result.raised

\* a tool-result batch: a user message carrying at least one tool_result block
IsToolResultBatch(msg) ==
    /\ msg.is_dict
    /\ msg.role = "user"
    /\ msg.is_list
    /\ \E k \in 1 .. Len(msg.blocks) :
          msg.blocks[k].is_dict /\ msg.blocks[k].type = "tool_result"

\* C23: extract_rollout_steps seals the open turn only at a tool-result batch
\* or at the end of the log, and only when the turn has a tool call; the
\* records are in log order and every record has at least one tool call
C23_SealedOnlyByBatch ==
    Extracted =>
        LET r == fn_out.result
            log == fn_in.data.messages
        IN  /\ Len(r.sealed_at) = Len(r.steps)
            /\ \A k \in 1 .. Len(r.steps) :
                  /\ r.steps[k].tool_calls # <<>>
                  /\ \/ r.sealed_at[k] = Len(log) + 1
                     \/ IsToolResultBatch(log[r.sealed_at[k]])
                  /\ k > 1 => r.sealed_at[k - 1] < r.sealed_at[k]

(* ============ optimize.py: analyze_trajectories, the rollout digest ============ *)

\* a file on disk: unreadable, readable but no JSON, or JSON holding data
UnreadableFile(name) == [name |-> name, readable |-> FALSE, valid_json |-> FALSE, data |-> NotAList]
InvalidJson(name) == [name |-> name, readable |-> TRUE, valid_json |-> FALSE, data |-> NotAList]
Json(name, data) == [name |-> name, readable |-> TRUE, valid_json |-> TRUE, data |-> data]

\* lines 453-457 and 461-465: json.loads(Path(f).read_text()) went through
Loads(f) == f.readable /\ f.valid_json

\* the JSON of a metric file: a dict (whose agentDurationMs may be no
\* number) or something else, null for instance
MetricDict == [is_dict |-> TRUE, duration_is_number |-> TRUE]
MetricOddDuration == [is_dict |-> TRUE, duration_is_number |-> FALSE]
MetricNull == [is_dict |-> FALSE, duration_is_number |-> FALSE]

\* one element of parts
Line(kind, text, n, m) == [kind |-> kind, text |-> text, n |-> n, m |-> m]

\* lines 247-280: a fixed text
synthetic_rollout == <<Line("synthetic", <<>>, 0, 0)>>

\* line 488 without .lower()
IsError_cased(r) == Contains(<<"e", "r", "r", "o", "r">>, r)

\* lines 488, 517, 533: "error" in r.lower()
IsError(r) == Contains(<<"e", "r", "r", "o", "r">>, Lower(r))

RECURSIVE Join(_)
Join(texts) ==
    IF texts = <<>> THEN <<>>
    ELSE IF Len(texts) = 1 THEN texts[1]
    ELSE texts[1] \o <<" ">> \o Join(Tail(texts))

\* line 495: agent_reasoning.strip() is not empty
HasInk(text) == \E k \in 1 .. Len(text) : text[k] # " "

FAIL == <<"F", "A", "I", "L">>
OK == <<"O", "K">>

LinesOf(kind, texts) == [k \in 1 .. Len(texts) |-> Line(kind, texts[k], 0, 0)]

\* lines 487-507: the lines of the i-th turn
TurnLines(step, i) ==
    LET errors == SelectSeq(step.tool_results, IsError)
        successes == SelectSeq(step.tool_results, LAMBDA r : ~IsError(r))
        agent_reasoning == Join(step.agent_text)
        status == IF errors # <<>> THEN FAIL ELSE OK
    IN  <<Line("turn", status, i, 0)>>
        \o (IF HasInk(agent_reasoning)
            THEN <<Line("reasoning", agent_reasoning, 0, 0)>> ELSE <<>>)
        \o LinesOf("call", step.tool_calls)
        \o LinesOf("ERROR", errors)
        \o LinesOf("result", successes)

RECURSIVE TurnsLines(_, _)
TurnsLines(steps, i) ==
    IF i > Len(steps) THEN <<>>
    ELSE TurnLines(steps[i], i) \o TurnsLines(steps, i + 1)

\* lines 483-507 for one transcript
RolloutLines(t) ==
    LET steps == extract_rollout_steps(t.data).steps
    IN  <<Line("rollout", t.name, Len(steps), 0)>> \o TurnsLines(steps, 1)

RECURSIVE Flatten(_)
Flatten(seqs) == IF seqs = <<>> THEN <<>> ELSE seqs[1] \o Flatten(Tail(seqs))

Count(seq, x) == Cardinality({k \in 1 .. Len(seq) : seq[k] = x})

\* the keys of tool_counts, in the order a dict keeps them: first insertion
RECURSIVE Keys(_, _)
Keys(calls, seen) ==
    IF calls = <<>> THEN <<>>
    ELSE IF calls[1] \in seen THEN Keys(Tail(calls), seen)
    ELSE <<calls[1]>> \o Keys(Tail(calls), seen \cup {calls[1]})

\* line 539: sorted(..., key=lambda x: -x[1]), a stable sort
RECURSIVE SortedByCount(_, _)
SortedByCount(keys, calls) ==
    IF keys = <<>> THEN <<>>
    ELSE LET rest == SortedByCount(Tail(keys), calls)
             c == Count(calls, keys[1])
             above == SelectSeq(rest, LAMBDA x : Count(calls, x) > c)
             below == SelectSeq(rest, LAMBDA x : Count(calls, x) <= c)
         IN  above \o <<keys[1]>> \o below

\* lines 510-541
PatternLines(all_steps) ==
    IF all_steps = <<>> THEN <<>>
    ELSE LET n_errors(step) == Len(SelectSeq(step.tool_results, IsError))
             wasteful == SelectSeq(all_steps, LAMBDA step : n_errors(step) > 1)
             wasted == [k \in 1 .. Len(wasteful) |->
                          Line("wasted", Join(wasteful[k].tool_calls),
                               n_errors(wasteful[k]), 0)]
             calls == Flatten([k \in 1 .. Len(all_steps) |-> all_steps[k].tool_calls])
             blamed == Flatten([k \in 1 .. Len(all_steps) |->
                          [j \in 1 .. n_errors(all_steps[k]) |->
                              all_steps[k].tool_calls[1]]])
             tools == SortedByCount(Keys(calls, {}), calls)
         IN  (IF wasted # <<>>
              THEN <<Line("WASTED CALLS", <<>>, 0, 0)>> \o SubSeq(wasted, 1, Min(5, Len(wasted)))
              ELSE <<>>)
             \o <<Line("TOOL USAGE", <<>>, 0, 0)>>
             \o [k \in 1 .. Len(tools) |->
                   Line("usage", tools[k], Count(calls, tools[k]), Count(blamed, tools[k]))]

DigestRaised == [raised |-> TRUE, synthetic |-> FALSE, parts |-> <<>>]

\* lines 442-543
analyze_trajectories(transcript_files, metric_files) ==
    LET transcripts == SelectSeq(transcript_files, Loads)
        metrics == SelectSeq(metric_files, Loads)
    IN  IF metrics = <<>> /\ transcripts = <<>>
        THEN [raised |-> FALSE, synthetic |-> TRUE, parts |-> synthetic_rollout]
        ELSE IF \E k \in 1 .. Len(metrics) :
                   ~metrics[k].data.is_dict \/ ~metrics[k].data.duration_is_number
        THEN DigestRaised
        ELSE IF \E k \in 1 .. Len(transcripts) :
                   extract_rollout_steps(transcripts[k].data).raised
        THEN DigestRaised
        ELSE [raised |-> FALSE, synthetic |-> FALSE,
              parts |->
                 [k \in 1 .. Len(metrics) |-> Line("RUN", <<>>, 0, 0)]
                 \o Flatten([k \in 1 .. Len(transcripts) |-> RolloutLines(transcripts[k])])
                 \o PatternLines(Flatten([k \in 1 .. Len(transcripts) |->
                        extract_rollout_steps(transcripts[k].data).steps]))]

NameA == <<"a">>
NameB == <<"b">>
NameM == <<"m">>

TranscriptFiles ==
    {UnreadableFile(NameA), InvalidJson(NameA)}
        \cup {Json(NameA, data) : data \in TranscriptData}

\* the files a second transcript is drawn from
SecondFiles ==
    {UnreadableFile(NameB), InvalidJson(NameB), Json(NameB, NotAList),
     Json(NameB, [is_list |-> TRUE, messages |-> <<NotAMessage>>]),
     Json(NameB, [is_list |-> TRUE, messages |-> <<A_two, U_mixed>>])}

TranscriptFileLists ==
    {<<>>} \cup {<<f>> : f \in TranscriptFiles}
           \cup {<<f, g>> : f \in {h \in TranscriptFiles : Len(h.data.messages) <= 1},
                            g \in SecondFiles}

UnreadableMetric ==
    [name |-> NameM, readable |-> FALSE, valid_json |-> FALSE, data |-> MetricNull]

MetricFileLists ==
    {<<>>, <<UnreadableMetric>>, <<Json(NameM, MetricDict)>>,
     <<Json(NameM, MetricNull)>>, <<Json(NameM, MetricOddDuration)>>}

InitDigest ==
    /\ LoopAtRest
    /\ fn_in \in [kind : {"analyze"},
                  transcript_files : TranscriptFileLists,
                  metric_files : MetricFileLists]
    /\ fn_out = NoOutput

CallAnalyze ==
    /\ fn_in.kind = "analyze"
    /\ Returns([called |-> TRUE,
                result |-> analyze_trajectories(fn_in.transcript_files,
                                                fn_in.metric_files)])

NextDigest == CallAnalyze

SpecDigest == InitDigest /\ [][NextDigest]_vars

Analyzed == fn_in.kind = "analyze" /\ fn_out.called

Digested == Analyzed /\ ~fn_out.result.raised /\ ~fn_out.result.synthetic

\* the turns the loaded transcripts hold, in the order of the files
LoadedSteps ==
    LET transcripts == SelectSeq(fn_in.transcript_files, Loads)
    IN  Flatten([k \in 1 .. Len(transcripts) |->
                    extract_rollout_steps(transcripts[k].data).steps])

\* the tool_use blocks of the assistant messages of the loaded transcripts
LoadedToolUses ==
    LET transcripts == SelectSeq(fn_in.transcript_files, Loads)
        uses(msg) == IF msg.is_dict /\ msg.role = "assistant" /\ msg.is_list
                     THEN Bodies(msg.blocks, "tool_use", FALSE) ELSE <<>>
    IN  Flatten([k \in 1 .. Len(transcripts) |->
                    Flatten([j \in 1 .. Len(transcripts[k].data.messages) |->
                                uses(transcripts[k].data.messages[j])])])

\* the result strings that hold 'error' in some casing
ErrorStrings == {R_Error, R_lower}

\* the lines of the digest that open a turn, and where each turn's lines end
TurnStarts(parts) == SelectSeq([k \in 1 .. Len(parts) |-> k],
                               LAMBDA k : parts[k].kind = "turn")
TurnEnd(parts, i) ==
    LET stops == {j \in i + 1 .. Len(parts) :
                     parts[j].kind \in {"turn", "rollout", "WASTED CALLS", "TOOL USAGE"}}
    IN  IF stops = {} THEN Len(parts) + 1
        ELSE CHOOSE j \in stops : \A h \in stops : j <= h
KindCount(parts, i, kind) ==
    Cardinality({j \in i + 1 .. TurnEnd(parts, i) - 1 : parts[j].kind = kind})

\* C24: every sealed turn is marked FAIL iff one of its tool-result strings
\* contains 'error' in some casing and OK otherwise, with one ERROR entry per
\* such string, and it keeps every tool call recorded while it was open
C24_TurnStatus ==
    Digested =>
        LET parts == fn_out.result.parts
            starts == TurnStarts(parts)
            steps == LoadedSteps
            bad(step) == SelectSeq(step.tool_results, LAMBDA r : r \in ErrorStrings)
        IN  /\ Len(starts) = Len(steps)
            /\ \A k \in 1 .. Len(starts) :
                  /\ parts[starts[k]].text \in {FAIL, OK}
                  /\ parts[starts[k]].text = FAIL <=> bad(steps[k]) # <<>>
                  /\ KindCount(parts, starts[k], "ERROR") = Len(bad(steps[k]))
                  /\ KindCount(parts, starts[k], "call") = Len(steps[k].tool_calls)
            /\ Len(SelectSeq(parts, LAMBDA l : l.kind = "call")) = Len(LoadedToolUses)

\* two tool calls sealed by a batch with exactly one error string
C24_Witness ==
    /\ Digested
    /\ Len(fn_in.transcript_files) = 1
    /\ fn_in.transcript_files[1].data.messages = <<A_two, U_mixed>>
    /\ LET parts == fn_out.result.parts
       IN  \E i \in 1 .. Len(parts) :
              /\ parts[i].kind = "turn"
              /\ parts[i].text = FAIL
              /\ KindCount(parts, i, "call") = 2
              /\ KindCount(parts, i, "ERROR") = 1
              /\ KindCount(parts, i, "result") = 1

\* a transcript file whose JSON is a list of role/content records
WellFormed(f) ==
    /\ Loads(f)
    /\ f.data.is_list
    /\ \A k \in 1 .. Len(f.data.messages) : f.data.messages[k].is_dict

\* the metric files are absent, unreadable, or hold a dict of numbers
MetricsHarmless ==
    \A k \in 1 .. Len(fn_in.metric_files) :
        Loads(fn_in.metric_files[k]) =>
            /\ fn_in.metric_files[k].data.is_dict
            /\ fn_in.metric_files[k].data.duration_is_number

\* C25: a malformed transcript file (unreadable, no JSON, or JSON whose
\* messages are no role/content records) is skipped: analyze_trajectories
\* returns the digest of the remaining files instead of raising
C25_MalformedSkipped ==
    (/\ Analyzed
     /\ MetricsHarmless
     /\ \E k \in 1 .. Len(fn_in.transcript_files) :
           ~WellFormed(fn_in.transcript_files[k]))
    => /\ ~fn_out.result.raised
       /\ fn_out.result =
             analyze_trajectories(SelectSeq(fn_in.transcript_files, WellFormed),
                                  fn_in.metric_files)

\* the part of C25 the code keeps: unreadable files and files that hold no
\* JSON are skipped
UnloadableSkipped ==
    (/\ Analyzed
     /\ MetricsHarmless
     /\ \A k \in 1 .. Len(fn_in.transcript_files) :
           Loads(fn_in.transcript_files[k]) => WellFormed(fn_in.transcript_files[k]))
    => /\ ~fn_out.result.raised
       /\ fn_out.result =
             analyze_trajectories(SelectSeq(fn_in.transcript_files, WellFormed),
                                  fn_in.metric_files)

NothingLoaded ==
    /\ SelectSeq(fn_in.transcript_files, Loads) = <<>>
    /\ SelectSeq(fn_in.metric_files, Loads) = <<>>

\* C27: analyze_trajectories returns the fixed synthetic digest exactly when
\* no metric file and no transcript file could be loaded, and returns a
\* non-empty digest for every input
C27_SyntheticOrNonEmpty ==
    Analyzed =>
        /\ ~fn_out.result.raised
        /\ fn_out.result.parts # <<>>
        /\ fn_out.result.synthetic <=> NothingLoaded
        /\ fn_out.result.synthetic => fn_out.result.parts = synthetic_rollout

\* the part of C27 the code keeps: a digest that is returned is not empty,
\* and it is the synthetic one exactly when nothing could be loaded
ReturnedDigestNonEmpty ==
    (Analyzed /\ ~fn_out.result.raised) =>
        /\ fn_out.result.parts # <<>>
        /\ fn_out.result.synthetic <=> NothingLoaded
        /\ fn_out.result.synthetic => fn_out.result.parts = synthetic_rollout

(* ============ dspy_optimize.py: build_trainset, the capped analysis ============ *)

\* a long text, kept as its length and whether it ends with the marker
Text(n) == [len |-> n, marked |-> FALSE]

TRUNCATION_MARKER == <<"\n", ".", ".", ".", " ", "(", "t", "r", "u", "n", "c", "a", "t", "e", "d", ")">>
ANALYSIS_CAP == 50000
MIN_ANALYSIS == 200
MAX_EXAMPLES == 8

\* text[:n]
Slice(text, n) ==
    IF text.len <= n THEN text ELSE [len |-> n, marked |-> FALSE]

\* text + TRUNCATION_MARKER
Marked(text) == [len |-> text.len + Len(TRUNCATION_MARKER), marked |-> TRUE]

\* line 193
Capped(analysis) ==
    [text |-> Marked(Slice(analysis, ANALYSIS_CAP)), cut |-> TRUE]

\* lines 186-202 for one trajectory file: the examples it adds
ExamplesOf(tf) ==
    IF tf.raises THEN <<>>
    ELSE IF tf.analysis.len < MIN_ANALYSIS THEN <<>>
    ELSE IF tf.analysis.len > ANALYSIS_CAP THEN <<Capped(tf.analysis)>>
    ELSE <<[text |-> tf.analysis, cut |-> FALSE]>>

\* lines 169-205
build_trainset(files) ==
    LET transcript_files == SubSeq(files, 1, Min(MAX_EXAMPLES, Len(files)))
    IN  Flatten([k \in 1 .. Len(transcript_files) |-> ExamplesOf(transcript_files[k])])

\* the trajectory files of runs/: what analyze_trajectories([tf], []) gives
\* for each, a digest of some length or an exception
AnalysisLengths == {0, 199, 200, 201, 49999, 50000, 50001, 50016, 60000}
TrajectoryFiles ==
    {[raises |-> FALSE, analysis |-> Text(n)] : n \in AnalysisLengths}
        \cup {[raises |-> TRUE, analysis |-> Text(0)]}

MaxWindow == 2
Windows == UNION {[1 .. n -> TrajectoryFiles] : n \in 0 .. MaxWindow}

InitTrainset ==
    /\ LoopAtRest
    /\ fn_in \in [kind : {"build_trainset"}, files : Windows]
    /\ fn_out = NoOutput

CallBuildTrainset ==
    /\ fn_in.kind = "build_trainset"
    /\ Returns([called |-> TRUE, result |-> build_trainset(fn_in.files)])

NextTrainset == CallBuildTrainset

SpecTrainset == InitTrainset /\ [][NextTrainset]_vars

Built == fn_in.kind = "build_trainset" /\ fn_out.called

\* C26: the analysis of every training example stays within its character
\* ceiling, and an analysis that was truncated ends with the truncation marker
C26_DigestWithinCeiling ==
    Built =>
        \A k \in 1 .. Len(fn_out.result) :
            /\ fn_out.result[k].text.len <= ANALYSIS_CAP
            /\ fn_out.result[k].cut => fn_out.result[k].text.marked

\* the part of C26 the code keeps: a truncated analysis ends with the marker
\* and is no longer than the ceiling plus the marker
TruncatedIsMarked ==
    Built =>
        \A k \in 1 .. Len(fn_out.result) :
            /\ fn_out.result[k].text.len <= ANALYSIS_CAP + Len(TRUNCATION_MARKER)
            /\ fn_out.result[k].cut => fn_out.result[k].text.marked

(* ============ dspy_optimize.py: make_prompt_metric, the weighted score ============ *)

\* line 133
criteria == <<"FAILURE_COVERAGE", "PATTERN_PRESERVATION", "NO_HARDCODED",
              "EFFICIENCY", "SPEED">>

\* lines 145-151, in hundredths
weights ==
    [c \in {criteria[k] : k \in 1 .. Len(criteria)} |->
        CASE c = "FAILURE_COVERAGE" -> 30
          [] c = "PATTERN_PRESERVATION" -> 20
          [] c = "NO_HARDCODED" -> 10
          [] c = "EFFICIENCY" -> 25
          [] c = "SPEED" -> 15]

DigitValue ==
    ("0" :> 0) @@ ("1" :> 1) @@ ("2" :> 2) @@ ("3" :> 3) @@ ("4" :> 4) @@
    ("5" :> 5) @@ ("6" :> 6) @@ ("7" :> 7) @@ ("8" :> 8) @@ ("9" :> 9)

\* \s* of the pattern: the text without its leading blanks
RECURSIVE SkipBlanks(_)
SkipBlanks(text) ==
    IF text # <<>> /\ text[1] = " " THEN SkipBlanks(Tail(text)) ELSE text

\* ([\d.]+) of the pattern: the longest run of digits and dots at the start
RECURSIVE DigitsAndDots(_)
DigitsAndDots(text) ==
    IF text # <<>> /\ (text[1] \in DOMAIN DigitValue \/ text[1] = ".")
    THEN <<text[1]>> \o DigitsAndDots(Tail(text))
    ELSE <<>>

\* line 139: re.search(rf"{c}:\s*([\d.]+)", eval_text), given what follows
\* the colon of the criterion's line; <<>> is no match
MatchGroup(line) ==
    IF ~line.present THEN <<>> ELSE DigitsAndDots(SkipBlanks(line.value))

\* float(text) raises ValueError: more than one dot, or no digit
FloatRaises(text) ==
    \/ Count(text, ".") > 1
    \/ \A k \in 1 .. Len(text) : text[k] = "."

RECURSIVE NatOf(_)
NatOf(digits) ==
    IF digits = <<>> THEN 0
    ELSE 10 * NatOf(SubSeq(digits, 1, Len(digits) - 1)) + DigitValue[digits[Len(digits)]]

\* float(text) in hundredths, for texts of at most two decimals
Float(text) ==
    LET dots == {k \in 1 .. Len(text) : text[k] = "."}
        dot == IF dots = {} THEN Len(text) + 1 ELSE CHOOSE k \in dots : TRUE
        whole == SubSeq(text, 1, dot - 1)
        decimals == SubSeq(text, dot + 1, Len(text))
        padded == SubSeq(decimals \o <<"0", "0">>, 1, 2)
    IN  100 * NatOf(whole) + NatOf(padded)

\* line 141 without the clamp
Clamp_none(x) == x

\* line 141: min(1.0, max(0.0, x))
Clamp(x) == Min(100, Max(0, x))

NEUTRAL == 50

\* lines 138-143 for one criterion
ScoreOf(line) ==
    LET group == MatchGroup(line)
    IN  IF group # <<>> THEN Clamp(Float(group)) ELSE NEUTRAL

RECURSIVE WeightedSum(_, _)
WeightedSum(scores, k) ==
    IF k > Len(criteria) THEN 0
    ELSE scores[criteria[k]] * weights[criteria[k]] + WeightedSum(scores, k + 1)

\* lines 107-163: the judge's text is given as what follows each criterion's
\* colon; combined is in ten-thousandths
prompt_metric(eval_text) ==
    IF \E k \in 1 .. Len(criteria) :
          /\ MatchGroup(eval_text[criteria[k]]) # <<>>
          /\ FloatRaises(MatchGroup(eval_text[criteria[k]]))
    THEN [raised |-> TRUE, scores |-> [c \in DOMAIN weights |-> 0], score |-> 0]
    ELSE LET scores == [c \in DOMAIN weights |-> ScoreOf(eval_text[c])]
         IN  [raised |-> FALSE, scores |-> scores, score |-> WeightedSum(scores, 1)]

(* ============ optimize.py: make_metric, the judge's JSON score ============ *)

\* the judge's evaluation: whether it holds a "{", whether the text between
\* the first "{" and the last "}" is JSON, what its "score" is (absent, a
\* number in hundredths, or a text float() rejects), and whether the fields
\* the feedback is built from have the types lines 356-381 expect
ScoreMissing == [kind |-> "missing", value |-> 0]
ScoreText == [kind |-> "text", value |-> 0]
ScoreNumber(v) == [kind |-> "number", value |-> v]

\* lines 348-388; the score is in hundredths
judge_metric(response) ==
    IF ~response.has_brace THEN [raised |-> FALSE, score |-> NEUTRAL]
    ELSE IF ~response.parses THEN [raised |-> FALSE, score |-> NEUTRAL]
    ELSE IF response.score.kind = "text" THEN [raised |-> FALSE, score |-> NEUTRAL]
    ELSE IF ~response.fields_ok THEN [raised |-> FALSE, score |-> NEUTRAL]
    ELSE IF response.score.kind = "missing" THEN [raised |-> FALSE, score |-> NEUTRAL]
    ELSE [raised |-> FALSE, score |-> response.score.value]

NoLine == [present |-> FALSE, value |-> <<>>]
Said(text) == [present |-> TRUE, value |-> text]

V_085 == <<" ", "0", ".", "8", "5">>
V_0 == <<"0">>
V_7 == <<"7">>
V_high == <<"h", "i", "g", "h">>
V_minus == <<"-", "0", ".", "5">>
V_dots == <<".", ".", ".">>
V_version == <<"1", ".", "2", ".", "3">>

JudgeLines ==
    {NoLine, Said(V_085), Said(V_0), Said(V_7), Said(V_high), Said(V_minus),
     Said(V_dots), Said(V_version)}

JudgedScores == {-300, 0, 50, 85, 100, 170}

JudgeResponses ==
    [has_brace : BOOLEAN, parses : BOOLEAN, fields_ok : BOOLEAN,
     score : {ScoreMissing, ScoreText} \cup {ScoreNumber(v) : v \in JudgedScores}]

InitMetric ==
    /\ LoopAtRest
    /\ \/ fn_in \in [kind : {"prompt_metric"},
                     eval_text : [DOMAIN weights -> JudgeLines]]
       \/ fn_in \in [kind : {"judge_metric"}, response : JudgeResponses]
    /\ fn_out = NoOutput

CallPromptMetric ==
    /\ fn_in.kind = "prompt_metric"
    /\ Returns([called |-> TRUE, result |-> prompt_metric(fn_in.eval_text)])

CallJudgeMetric ==
    /\ fn_in.kind = "judge_metric"
    /\ Returns([called |-> TRUE, result |-> judge_metric(fn_in.response)])

NextMetric == CallPromptMetric \/ CallJudgeMetric

SpecMetric == InitMetric /\ [][NextMetric]_vars

PromptJudged == fn_in.kind = "prompt_metric" /\ fn_out.called
JsonJudged == fn_in.kind = "judge_metric" /\ fn_out.called

\* C28: the weights are positive and sum to 1, every parsed criterion score
\* is clamped to [0, 1], and the combined score the metric returns lies in
\* [0, 1]
C28_CombinedWithinUnit ==
    /\ \A c \in DOMAIN weights : weights[c] > 0
    /\ WeightedSum([c \in DOMAIN weights |-> 1], 1) = 100
    /\ (PromptJudged /\ ~fn_out.result.raised) =>
          /\ \A c \in DOMAIN weights :
                fn_out.result.scores[c] >= 0 /\ fn_out.result.scores[c] <= 100
          /\ fn_out.result.score >= 0
          /\ fn_out.result.score <= 100 * 100

\* a judge that answers 7 on one criterion and 0.85 on another
C28_Witness ==
    /\ PromptJudged
    /\ ~fn_out.result.raised
    /\ fn_in.eval_text["SPEED"] = Said(V_7)
    /\ fn_in.eval_text["EFFICIENCY"] = Said(V_085)
    /\ fn_out.result.scores["SPEED"] = 100
    /\ fn_out.result.scores["EFFICIENCY"] = 85

\* the values that are present but no number
NotNumbers == {V_high, V_dots, V_version}

\* C29: in both judge metrics a criterion whose line is missing, or whose
\* value is present but no parseable number, gets the neutral 0.5, and the
\* metric returns instead of raising
C29_UnparseableIsNeutral ==
    /\ PromptJudged =>
          /\ ~fn_out.result.raised
          /\ \A c \in DOMAIN weights :
                (~fn_in.eval_text[c].present \/ fn_in.eval_text[c].value \in NotNumbers)
                    => fn_out.result.scores[c] = NEUTRAL
    /\ JsonJudged =>
          /\ ~fn_out.result.raised
          /\ (\/ ~fn_in.response.has_brace
              \/ ~fn_in.response.parses
              \/ fn_in.response.score.kind \in {"missing", "text"})
                => fn_out.result.score = NEUTRAL

\* the part of C29 the code keeps: optimize.make_metric always returns and
\* falls back to 0.5, and make_prompt_metric gives 0.5 to a criterion whose
\* line is missing or whose value starts with neither digit nor dot
UnmatchedIsNeutral ==
    /\ (PromptJudged /\ ~fn_out.result.raised) =>
          \A c \in DOMAIN weights :
             (~fn_in.eval_text[c].present \/ fn_in.eval_text[c].value \in {V_high, V_minus})
                 => fn_out.result.scores[c] = NEUTRAL
    /\ JsonJudged =>
          /\ ~fn_out.result.raised
          /\ (\/ ~fn_in.response.has_brace
              \/ ~fn_in.response.parses
              \/ fn_in.response.score.kind \in {"missing", "text"})
                => fn_out.result.score = NEUTRAL

\* C30: the score optimize.make_metric's judge metric returns lies in [0, 1]
\* for every judge response
C30_JudgeScoreWithinUnit ==
    JsonJudged =>
        /\ ~fn_out.result.raised
        /\ fn_out.result.score >= 0
        /\ fn_out.result.score <= 100

(* ================= the history kept in the TrainingState ================ *)

\* the entries the last iteration appended to trajectory_history
Gained ==
    SubSeq(state.trajectory_history,
           Len(obs.entry.trajectory_history) + 1, Len(state.trajectory_history))

\* C31: after a completed iteration trajectory_history has gained exactly one
\* entry for each new run file of the batch, or exactly one placeholder with
\* no file references when the batch produced no run file; also when the
\* batch produced fewer transcript files than run files
C31_OneEntryPerRunFile ==
    IterationCompleted =>
        IF frame.new_run_files = <<>>
        THEN /\ Len(Gained) = 1
             /\ Gained[1].run_file = NoName
             /\ Gained[1].transcript_file = NoName
        ELSE /\ Len(Gained) = Len(frame.new_run_files)
             /\ \A k \in 1 .. Len(Gained) :
                   Gained[k].run_file = frame.new_run_files[k].name

\* the part of C31 the code keeps: a batch with as many transcript files as
\* run files gains one entry per run file, a batch without run files gains
\* the placeholder
OneEntryPerPair ==
    (IterationCompleted /\ Len(frame.new_transcript_files) >= Len(frame.new_run_files)) =>
        IF frame.new_run_files = <<>>
        THEN /\ Len(Gained) = 1
             /\ Gained[1].run_file = NoName
             /\ Gained[1].transcript_file = NoName
        ELSE /\ Len(Gained) = Len(frame.new_run_files)
             /\ \A k \in 1 .. Len(Gained) :
                   Gained[k].run_file = frame.new_run_files[k].name

IsPrefix(a, b) == Len(a) <= Len(b) /\ SubSeq(b, 1, Len(a)) = a

\* the history a restart with --resume would begin with (load_state)
ResumedHistory ==
    IF state_file = NoSnapshot THEN <<>> ELSE state_file.trajectory_history

\* C32: trajectory_history is append-only: every step leaves the entries
\* already appended unchanged and in place and only adds entries at the end,
\* in memory and in the snapshot a resume starts from, which never holds
\* anything but a prefix of the history
C32_HistoryAppendOnly ==
    [][/\ IsPrefix(state.trajectory_history, state'.trajectory_history)
       /\ IsPrefix(ResumedHistory, ResumedHistory')
       /\ IsPrefix(ResumedHistory', state'.trajectory_history)]_vars

\* an aborted iteration after a completed one: both left their entries, and
\* the snapshot holds them
C32_Witness ==
    /\ pc = "loop"
    /\ obs.last_save = "exception"
    /\ Len(state.trajectory_history) >= 2
    /\ state.trajectory_history[1].iteration
          < state.trajectory_history[Len(state.trajectory_history)].iteration
    /\ ResumedHistory = state.trajectory_history

(* ======================== the iteration counter ======================== *)

\* C33: the iteration counter never decreases and increases on every pass of
\* the main loop, completed or aborted by an exception, so the loop makes at
\* most max_iterations passes
C33_IterationCounts ==
    [][/\ state'.iteration >= state.iteration
       /\ (pc \in InPass /\ pc' = "loop") => state'.iteration = obs.entry.iteration + 1
       /\ pc' \in {"loop", "done"} => obs'.passes = state'.iteration
       /\ obs'.passes <= args.max_iterations]_vars

\* the loop left by the iteration cap after max_iterations passes, the last
\* of them aborted by an exception
C33_Witness ==
    /\ pc = "done"
    /\ exit_reason = "max_iterations"
    /\ obs.last_save = "exception"
    /\ args.max_iterations = LongRun
    /\ obs.passes = args.max_iterations

(* ============== get_sliding_window, with files that may be gone ======== *)

\* lines 297-315: both lists; gone_transcripts and gone_runs are the paths
\* for which Path(...).exists() is false
sliding_window(history, size, gone_transcripts, gone_runs) ==
    LET recent == Recent(history, size)
        tf(e) == e.transcript_file # NoName /\ e.transcript_file \notin gone_transcripts
        rf(e) == e.run_file # NoName /\ e.run_file \notin gone_runs
        transcripts == SelectSeq(recent, tf)
        runs == SelectSeq(recent, rf)
    IN  [transcript_files |-> [k \in 1 .. Len(transcripts) |-> transcripts[k].transcript_file],
         metric_files |-> [k \in 1 .. Len(runs) |-> runs[k].run_file]]

\* what became of the k-th entry of a history: a placeholder, an entry whose
\* files are both there, or one of whose files has been deleted
EntryKinds == {"placeholder", "both", "no_transcript", "no_run"}

MaxHistory == 7

HistoryOf(kinds) ==
    [k \in 1 .. Len(kinds) |->
        IF kinds[k] = "placeholder" THEN Placeholder(k, 2)
        ELSE [iteration |-> k, run_file |-> FileName(k, 0),
              transcript_file |-> FileName(k, 0),
              steps_completed |-> 0, step_target |-> 2]]

InitWindow ==
    /\ LoopAtRest
    /\ fn_in \in [kind : {"window"},
                  size : {1, SLIDING_WINDOW_SIZE},
                  kinds : UNION {[1 .. n -> EntryKinds] : n \in 0 .. MaxHistory}]
    /\ fn_out = NoOutput

CallSlidingWindow ==
    /\ fn_in.kind = "window"
    /\ LET history == HistoryOf(fn_in.kinds)
           at(kind) == {FileName(k, 0) : k \in {j \in 1 .. Len(fn_in.kinds) : fn_in.kinds[j] = kind}}
       IN  Returns([called |-> TRUE,
                    result |-> sliding_window(history, fn_in.size,
                                              at("no_transcript"), at("no_run"))])

NextWindow == CallSlidingWindow

SpecWindow == InitWindow /\ [][NextWindow]_vars

\* the positions of the last `size` entries, the whole history when it has
\* at most `size` entries
LastPositions ==
    {k \in 1 .. Len(fn_in.kinds) : k > Len(fn_in.kinds) - fn_in.size}

\* paths is the increasing list of the paths of the given positions
ListsExactly(paths, positions) ==
    /\ Len(paths) = Cardinality(positions)
    /\ \A k \in 1 .. Len(paths) : paths[k][1] \in positions /\ paths[k][2] = 0
    /\ \A k \in 1 .. Len(paths) - 1 : paths[k][1] < paths[k + 1][1]

\* C34: get_sliding_window returns at most `size` transcript paths and at
\* most `size` metric paths, those of the last `size` entries of the history
\* (of the whole history when it is no longer), in history order, without
\* placeholders and without files that no longer exist
C34_WindowOfLastEntries ==
    (fn_in.kind = "window" /\ fn_out.called) =>
        /\ Len(fn_out.result.transcript_files) <= fn_in.size
        /\ Len(fn_out.result.metric_files) <= fn_in.size
        /\ ListsExactly(fn_out.result.transcript_files,
              {k \in LastPositions : fn_in.kinds[k] \in {"both", "no_run"}})
        /\ ListsExactly(fn_out.result.metric_files,
              {k \in LastPositions : fn_in.kinds[k] \in {"both", "no_transcript"}})

\* a history longer than the window whose last entries hold a placeholder
\* and a deleted transcript, and whose older entries have all their files
C34_Witness ==
    /\ fn_in.kind = "window"
    /\ fn_out.called
    /\ fn_in.size = SLIDING_WINDOW_SIZE
    /\ Len(fn_in.kinds) = MaxHistory
    /\ fn_in.kinds[1] = "both"
    /\ fn_in.kinds[MaxHistory] = "placeholder"
    /\ fn_in.kinds[MaxHistory - 1] = "no_transcript"
    /\ Len(fn_out.result.transcript_files) = SLIDING_WINDOW_SIZE - 2
    /\ Len(fn_out.result.metric_files) = SLIDING_WINDOW_SIZE - 1

(* ===================== the failure counter of main ===================== *)

\* the last pass of the loop was aborted by an exception
IterationAborted == pc \in {"loop", "done"} /\ obs.last_save = "exception"

\* C35: every failed iteration, a crash batch (no run file) as well as an
\* iteration aborted by an exception, leaves consecutive_failures exactly one
\* higher than it was when the iteration started, so that after k failed
\* iterations in a row the counter is at least k
C35_FailedPassCounts ==
    /\ IterationAborted =>
          state.consecutive_failures = obs.entry.consecutive_failures + 1
    /\ (IterationCompleted /\ frame.new_run_files = <<>>) =>
          state.consecutive_failures = obs.entry.consecutive_failures + 1

\* the part of C35 the code keeps: an aborted iteration leaves the counter
\* at 1 or more, and one higher than it was when the batch was not yet
\* counted
AbortedCountsFromBatch ==
    IterationAborted =>
        /\ state.consecutive_failures >= 1
        /\ state.consecutive_failures <= obs.entry.consecutive_failures + 2

(* ============== the curriculum over the iterations of main ============= *)

\* a run that starts two advancements below the ceiling, the second of them
\* cut by the ceiling, and one that starts above the ceiling
AdvancingConfigs ==
    [initial_target : {MAX_STEPS - 3, MAX_STEPS + 1},
     max_iterations : {LongRun},
     n_agents : {1}]

InitAdvance ==
    /\ args \in AdvancingConfigs
    /\ state = make_fresh_state(args.initial_target)
    /\ state_file = NoSnapshot
    /\ pc = "loop"
    /\ exc = "none"
    /\ exit_reason = "none"
    /\ agents = [i \in AgentIds |-> IdleAgent]
    /\ frame = FreshFrame(0, 0, P0)
    /\ system_prompt = P0
    /\ prompt_history = {}
    /\ browsers = {}
    /\ obs = InitObs
    /\ fn_in = NoInput
    /\ fn_out = NoOutput
    /\ trial = NoTrial

SpecAdvance == InitAdvance /\ [][Next]_vars

\* C36: step_target never decreases, every change of it is an advancement
\* to min(step_target + STEP_INCREMENT, MAX_STEPS), and it never exceeds
\* MAX_STEPS when the initial target does not
C36_TargetOnlyAdvances ==
    [][/\ state'.step_target >= state.step_target
       /\ state'.step_target # state.step_target =>
             state'.step_target = Min(state.step_target + STEP_INCREMENT, MAX_STEPS)
       /\ args.initial_target <= MAX_STEPS => state'.step_target <= MAX_STEPS]_vars

\* the target advanced twice, the second time to the ceiling and by less
\* than STEP_INCREMENT
C36_Witness ==
    /\ IterationCompleted
    /\ obs.entry.step_target > args.initial_target
    /\ obs.entry.step_target < MAX_STEPS
    /\ state.step_target = MAX_STEPS
    /\ state.step_target < obs.entry.step_target + STEP_INCREMENT

\* C37: started with a clear counter below CONSECUTIVE_CLEARS_TO_ADVANCE,
\* after every completed iteration that leaves step_target below MAX_STEPS
\* the clear counter, in the state and in the state file, is below
\* CONSECUTIVE_CLEARS_TO_ADVANCE
C37_ClearsBelowThreshold ==
    (IterationCompleted /\ state.step_target < MAX_STEPS) =>
        /\ state.consecutive_clears < CONSECUTIVE_CLEARS_TO_ADVANCE
        /\ state_file.consecutive_clears < CONSECUTIVE_CLEARS_TO_ADVANCE

\* an iteration that reached the threshold and advanced to a target below
\* the ceiling
C37_Witness ==
    /\ IterationCompleted
    /\ obs.entry.consecutive_clears = CONSECUTIVE_CLEARS_TO_ADVANCE - 1
    /\ frame.best_steps >= obs.entry.step_target
    /\ state.step_target > obs.entry.step_target
    /\ state.step_target < MAX_STEPS
    /\ state_file.consecutive_clears = 0

\* at the ceiling the counter is not reset and passes the threshold
ClearsGrowAtCeiling ==
    /\ IterationCompleted
    /\ state.step_target = MAX_STEPS
    /\ state.consecutive_clears > CONSECUTIVE_CLEARS_TO_ADVANCE

(* ================= what an iteration does to SYSTEM.md ================= *)

\* how the optimization step of the iteration ended
Outcomes == {"returned", "raised", "skipped"}

\* the locals after step 7 (lines 414-437) for a candidate and an outcome
AfterOptimization(f, candidate, outcome) ==
    CASE outcome = "returned" -> OptimizationReturned(f, candidate)
      [] outcome = "raised" -> OptimizationRaised(f)
      [] outcome = "skipped" -> OptimizationSkipped(f)

\* run_iteration at line 439, step 7 having ended in any of the three ways,
\* with any of the candidates, the empty one and the text of SYSTEM.md
\* among them
InitPrompt ==
    /\ args = [initial_target |-> 2, max_iterations |-> 1, n_agents |-> 1]
    /\ state = make_fresh_state(args.initial_target)
    /\ state_file = NoSnapshot
    /\ pc = "commit"
    /\ exc = "none"
    /\ exit_reason = "none"
    /\ agents = [i \in AgentIds |-> IdleAgent]
    /\ fn_in \in [kind : {"prompt"}, candidate : CommitInputs, outcome : Outcomes]
    /\ system_prompt = fn_in.candidate.file
    /\ prompt_history = IF fn_in.candidate.file = P1 THEN {P0} ELSE {}
    /\ frame = AfterOptimization(
                   [FreshFrame(0, args.initial_target, ReadPrompt(fn_in.candidate.file))
                       EXCEPT !.cleanups = 2],
                   CandidateText(fn_in.candidate), fn_in.outcome)
    /\ browsers = {}
    /\ obs = InitObs
    /\ fn_out = NoOutput
    /\ trial = NoTrial

SpecPrompt == InitPrompt /\ [][NextCommit]_vars

\* C38: an iteration changes SYSTEM.md at most once, at its write step, and
\* only when the optimization returned; the new content is the accepted
\* candidate, which is not empty and differs from the prompt read at the
\* start of the iteration. In every other case (optimization skipped or
\* failed, candidate empty or equal to the previous prompt) the file keeps
\* its pre-iteration content.
C38_PromptWrittenOnce ==
    [][system_prompt' # system_prompt =>
          /\ pc = "write"
          /\ ~frame.prompt_written /\ frame'.prompt_written
          /\ frame.optimization = "returned"
          /\ system_prompt' = Accepted(frame.optimized_prompt, frame.previous_prompt)
          /\ system_prompt' # <<>>
          /\ system_prompt' # NoPromptFile
          /\ system_prompt' # frame.previous_prompt]_vars

\* the candidate replaced a different SYSTEM.md
C38_Witness ==
    /\ pc = "persist"
    /\ fn_in.kind = "prompt"
    /\ fn_in.outcome = "returned"
    /\ fn_in.candidate.file = P0
    /\ frame.prompt_written
    /\ system_prompt = CandidateText(fn_in.candidate)
    /\ system_prompt # P0

\* the iteration is over and SYSTEM.md is what it was
PromptUntouched ==
    /\ pc = "persist"
    /\ fn_in.kind = "prompt"
    /\ ~frame.prompt_written
    /\ system_prompt = fn_in.candidate.file

\* an empty candidate was returned and SYSTEM.md kept
EmptyCandidateKept ==
    PromptUntouched /\ fn_in.outcome = "returned"
                    /\ CandidateText(fn_in.candidate) = <<>>
                    /\ fn_in.candidate.file = P0

\* the text of SYSTEM.md was returned and SYSTEM.md kept
SameCandidateKept ==
    PromptUntouched /\ fn_in.outcome = "returned"
                    /\ CandidateText(fn_in.candidate) = P1
                    /\ fn_in.candidate.file = P1

\* the optimization did not return and SYSTEM.md was kept, a missing one
\* staying missing
NoCandidateKept ==
    PromptUntouched /\ fn_in.outcome \in {"raised", "skipped"}
                    /\ fn_in.candidate.file = NoPromptFile

\* SYSTEM.md at the end of the iteration: its pre-iteration content or the
\* candidate
PromptIsOldOrCandidate ==
    fn_in.kind = "prompt" =>
        \/ system_prompt = fn_in.candidate.file
        \/ /\ fn_in.outcome = "returned"
           /\ system_prompt = CandidateText(fn_in.candidate)
           /\ system_prompt # <<>>

(* ===================== the batch-wide cleanup ========================== *)

\* a step on which run_agents_parallel runs _kill_orphaned_browsers and
\* _clean_all_browser_dirs: before it submits (lines 223-224) or after the
\* executor is closed (lines 244-245)
CleanupBeforeBatch == pc = "loop" /\ pc' = "batch" /\ frame'.cleanups = 1
CleanupAfterBatch == pc = "batch" /\ frame'.cleanups = frame.cleanups + 1

\* C39: the batch-wide cleanup never runs while a trial of the batch is in
\* flight: the one before the batch runs when no trial is in flight and the
\* trials are submitted only after it, the one after the batch runs when
\* every worker has returned, and a trial in flight always lies between the
\* two
C39_CleanupOutsideBatch ==
    [][/\ CleanupBeforeBatch =>
             /\ Running = {}
             /\ Running' = AgentIds
       /\ CleanupAfterBatch =>
             /\ Returned = AgentIds
             /\ agents' = agents
       /\ Running' # {} => frame'.cleanups = 1]_vars

\* the cleanup after a batch of several trials, all of which wrote their
\* metrics, has run
C39_Witness ==
    /\ pc = "discover"
    /\ args.n_agents = ManyAgents
    /\ frame.cleanups = 2
    /\ Returned = AgentIds
    /\ obs.wrote_run = AgentIds
    /\ browsers = CleanedBrowsers

(* ================== every trial comes to an end ======================== *)

\* the steps of the worker thread whose calls end within a bounded time:
\* Popen returns or raises, communicate(timeout=SUBPROCESS_TIMEOUT) returns
\* or times out, sleep(2) ends, communicate(timeout=5) and wait(timeout=5)
\* return or time out, rmtree(ignore_errors=True) ends. What the agent does
\* (opening a browser, exiting) and a failure of communicate are left to
\* chance.
RunnerStep ==
    \/ TrialStart
    \/ PopenSucceeds \/ PopenFails
    \/ CommunicateReturns \/ CommunicateTimesOut
    \/ KillTerm
    \/ KillKill
    \/ Drain
    \/ Finally
    \/ Wait
    \/ Cleanup

\* the worker thread is scheduled as long as it has a step to take
SpecTrialFair == InitTrial /\ [][NextTrial]_vars /\ WF_vars(RunnerStep)

ReturnedWithProcessAlive ==
    /\ trial.pos = "returned"
    /\ trial.proc = "running"
    /\ trial.how = "timeout"

(* ====================== persistence and resume ========================= *)

\* lines 61-64 and 527-536: the TrainingState a restart with --resume (and
\* the same --initial-target) begins with
ResumedState ==
    IF state_file = NoSnapshot
    THEN make_fresh_state(args.initial_target)
    ELSE state_file

\* the controller is at the loop head after a pass of the loop, completed or
\* aborted by an exception
AfterPass == pc = "loop" /\ obs.last_save \in {"iteration", "exception"}

\* C11: after every pass of the main loop, completed or aborted by an
\* exception, the snapshot on disk equals the TrainingState in memory, so a
\* restart with --resume continues from the very state the run is in.
C11_SnapshotEqualsState ==
    AfterPass => ResumedState = state

====
